---------------------------- MODULE Spec2Model ----------------------------
(***************************************************************************)
(* GoonBot (src/main.py): the event roster state machine, its scheduler    *)
(* loop, the DM confirmation views and the event-card surfaces.            *)
(*                                                                         *)
(* One step of the model is one run of a handler between two suspension    *)
(* points of the asyncio event loop (an await that performs network I/O).  *)
(* A handler whose roster mutation continues after a suspension point is   *)
(* split there: its continuation waits in `pending` (reaction and command  *)
(* handlers) or in `sched` (the scheduler task).                           *)
(***************************************************************************)
EXTENDS Integers, Sequences, FiniteSets, TLC

(***************************************************************************)
(* Bounds of the model.                                                    *)
(***************************************************************************)
MaxMid == 4          \* message identifiers handed out by the platform
MaxNow == 1          \* clock steps
MaxPending == 1      \* handlers suspended on a promotion DM at one time
MaxRosters == 2      \* rosters created
MaxSent == 2         \* reminder batches counted per roster and label

(***************************************************************************)
(* Program constants.                                                      *)
(***************************************************************************)
TwoHours == 7200                 \* 2*60*60
ThirtyMin == 1800                \* 30*60
FOUNDER_USER_ID == 1

Members == {1, 2, 3}             \* guild members (user ids)
SherpaRole == {3}                \* a role whose name starts with "sherpa"
AssistantRole == {2, 3}          \* the Sherpa Assistant role
ClockStep == TwoHours            \* the clock reads 0, then ClockStep, ...
StartSoon == TwoHours            \* parsed start times; 0 is "no start time"
StartLater == 2 * TwoHours
Emoji == {"check", "note", "repeat", "cross", "other"}

None == 0

Range(s) == {s[i] : i \in DOMAIN s}
Without(s, x) == SelectSeq(s, LAMBDA y : y # x)
Max(a, b) == IF a >= b THEN a ELSE b
Min(a, b) == IF a <= b THEN a ELSE b
Prefix(s, n) == SubSeq(s, 1, Min(n, Len(s)))
Suffix(s, n) == SubSeq(s, Min(n, Len(s)) + 1, Len(s))

VARIABLES
    SCHEDULES,   \* message id -> index of the roster object in `rosters` (0: no key)
    rosters,     \* the roster dictionaries ("data"), in creation order
    msgs,        \* the platform's messages, by message id
    views,       \* DM buttons sent: ConfirmView / SherpaConfirmView (mid, uid)
    delq,        \* deleted messages whose on_message_delete has not run yet
    pending,     \* handlers suspended in _dm_promoted_users
    sched,       \* the scheduler task
    now,         \* the clock
    sent,        \* reminder batches started, per roster and label
    QUEUES,      \* activity -> the waiting queue (an absent key reads as [])
    disk,        \* queues.json and queues.json.tmp
    closed,      \* members to whom a DM cannot be delivered
    removals,    \* reactions the bot removed whose gateway event is in flight
    last         \* the handler step taken last and what it returned

store == <<QUEUES, disk, closed, removals>>

vars == <<SCHEDULES, rosters, msgs, views, delq, pending, sched, now, sent, store,
          last>>

(***************************************************************************)
(* _is_sherpa, _is_sherpa_assistant, _is_promoter_or_founder               *)
(***************************************************************************)
AnyMember(uid) == uid \in Members

AnyInvoker(invoker, d) == invoker \in Members

_is_sherpa(uid) == uid \in SherpaRole

_is_sherpa_assistant(uid) == uid \in AssistantRole

_is_promoter_or_founder(invoker, d) ==
    \/ invoker = FOUNDER_USER_ID
    \/ d.promoter_id # None /\ d.promoter_id = invoker

(***************************************************************************)
(* _cap_for_activity                                                       *)
(***************************************************************************)
_cap_for_activity(activity) ==
    IF activity = "raid" THEN 6 ELSE IF activity = "dungeon" THEN 3 ELSE 6

(***************************************************************************)
(* player_slots = max(0, cap - reserved); a dictionary without the key     *)
(* "reserved_sherpas" reads 0.                                             *)
(***************************************************************************)
player_slots(d) == Max(0, d.capacity - d.reserved_sherpas)

(***************************************************************************)
(* _user_in_any_event_list                                                 *)
(***************************************************************************)
_user_in_any_event_list(d, uid) ==
    IF uid \in Range(d.players) THEN "players"
    ELSE IF uid \in Range(d.backups) THEN "backups"
    ELSE IF uid \in d.sherpas THEN "sherpas"
    ELSE IF uid \in Range(d.sherpa_backup) THEN "sherpa_backup"
    ELSE "None"

(***************************************************************************)
(* set.add on the sherpa_backup of a /schedule or /event roster: a set,    *)
(* kept here as the increasing sequence of its elements so that one field  *)
(* serves both roster types (a Sherpa-only roster keeps a list).           *)
(***************************************************************************)
RECURSIVE SeqOf(_)
SeqOf(S) ==
    IF S = {} THEN <<>>
    ELSE LET m == CHOOSE x \in S : \A y \in S : x <= y
         IN  <<m>> \o SeqOf(S \ {m})

SetAdd(s, x) == SeqOf(Range(s) \cup {x})

(***************************************************************************)
(* A sherpa-only dictionary has no "players" and no "backups" key: the     *)
(* handlers read data.get("players", []), a fresh list that is dropped.    *)
(***************************************************************************)
WithLists(d, p, b) ==
    IF d.type = "sherpa_only" THEN d ELSE [d EXCEPT !.players = p, !.backups = b]

(***************************************************************************)
(* _autofill_from_backups: the while loop, and the call on a dictionary.   *)
(***************************************************************************)
RECURSIVE AutofillLoop(_, _, _, _)
AutofillLoop(participants, backups, moved, slots) ==
    IF Len(participants) < slots /\ backups # <<>>
    THEN LET nxt == Head(backups) IN
         IF nxt \notin Range(participants)
         THEN AutofillLoop(Append(participants, nxt), Tail(backups),
                           Append(moved, nxt), slots)
         ELSE AutofillLoop(participants, Tail(backups), moved, slots)
    ELSE [players |-> participants, backups |-> backups, moved |-> moved]

AutofillOff(d) == [data |-> d, moved |-> <<>>]

AutofillLifo(d) ==
    LET free == player_slots(d) - Len(d.players)
        n == Len(d.backups)
        k == IF free > 0 /\ n > 0 THEN 1 ELSE 0
    IN  [data |-> [d EXCEPT !.players = IF k = 1 THEN Append(@, d.backups[n]) ELSE @,
                            !.backups = IF k = 1 THEN SubSeq(@, 1, n - 1) ELSE @],
         moved |-> IF k = 1 THEN <<d.backups[n]>> ELSE <<>>]

AutofillOne(d) ==
    LET free == player_slots(d) - Len(d.players)
        k == IF free > 0 /\ d.backups # <<>> THEN 1 ELSE 0
    IN  [data |-> [d EXCEPT !.players = IF k = 1 THEN Append(@, Head(d.backups)) ELSE @,
                            !.backups = IF k = 1 THEN Tail(@) ELSE @],
         moved |-> IF k = 1 THEN <<Head(d.backups)>> ELSE <<>>]

_autofill_from_backups(d) ==
    LET r == AutofillLoop(d.players, d.backups, <<>>, player_slots(d))
    IN  [data |-> WithLists(d, r.players, r.backups), moved |-> r.moved]

(***************************************************************************)
(* _append_unique_to: (data', added).                                      *)
(***************************************************************************)
_append_unique_to(d, key, uid) ==
    LET exists == _user_in_any_event_list(d, uid) IN
    IF exists # "None" /\ exists # key THEN [data |-> d, added |-> FALSE]
    ELSE IF key = "sherpas" THEN
        IF uid \in d.sherpas THEN [data |-> d, added |-> FALSE]
        ELSE [data |-> [d EXCEPT !.sherpas = @ \cup {uid}], added |-> TRUE]
    ELSE IF uid \in Range(d[key]) THEN [data |-> d, added |-> FALSE]
    ELSE IF key = "sherpa_backup" /\ d.type # "sherpa_only"
         THEN [data |-> [d EXCEPT ![key] = SetAdd(@, uid)], added |-> TRUE]
    ELSE [data |-> [d EXCEPT ![key] = Append(@, uid)], added |-> TRUE]

(***************************************************************************)
(* _render_event_embed and _render_sherpa_only_embed: the fields of the    *)
(* card that depend on the roster.                                         *)
(***************************************************************************)
_render_event_embed(d) ==
    LET is_user_event == d.type = "user_event" IN
    [card |-> IF is_user_event THEN "user_event" ELSE "event",
     capacity |-> d.capacity,
     sherpas |-> IF is_user_event THEN {} ELSE d.sherpas,
     sherpa_backup |-> IF is_user_event THEN {} ELSE Range(d.sherpa_backup),
     players |-> d.players,
     backups |-> d.backups]

_render_sherpa_only_embed(d) ==
    [card |-> "sherpa_only",
     capacity |-> d.capacity,
     sherpas |-> d.sherpas,
     sherpa_backup |-> {},
     players |-> <<>>,
     backups |-> d.sherpa_backup]

Render(d) ==
    IF d.type = "sherpa_only" THEN _render_sherpa_only_embed(d)
    ELSE _render_event_embed(d)

(***************************************************************************)
(* The call of a render function on the dictionary: the embed it returns   *)
(* and the dictionary it leaves behind.  Both functions only read `data`   *)
(* (data.get(...), list(...), enumerate(...)).  RenderSorting is a render  *)
(* that sorts data["players"] in place before listing them.                *)
(***************************************************************************)
RenderSorting(d) ==
    LET e == [d EXCEPT !.players = SeqOf(Range(@))]
    IN  [embed |-> Render(e), data |-> e]

RenderCall(d) == [embed |-> Render(d), data |-> d]


(***************************************************************************)
(* Messages.  A message id is the position of the message in `msgs`; ids   *)
(* grow with creation time, as the platform's snowflakes do, so the keys   *)
(* of SCHEDULES are iterated (insertion order) in increasing id order.     *)
(***************************************************************************)
Mids == 1..MaxMid

AlertEmbed ==
    [card |-> "alert", capacity |-> 0, sherpas |-> {}, sherpa_backup |-> {},
     players |-> <<>>, backups |-> <<>>]

NewMsg(kind, embed, reactions, link, origin) ==
    [kind |-> kind, live |-> TRUE, embed |-> embed, reactions |-> reactions,
     link |-> link,        \* a Sherpa signup card: the event card it links to
     origin |-> origin]    \* a re-posted event card: the deleted card it stands for

Keys == {k \in Mids : SCHEDULES[k] # 0}

(***************************************************************************)
(* SCHEDULES.get(message_id): the roster registered under the identifier   *)
(* (0: None, on which every handler returns).                              *)
(***************************************************************************)
GetLatest(mid) == IF SCHEDULES[mid] # 0 THEN SCHEDULES[mid] ELSE Len(rosters)

SCHEDULES_get(mid) == SCHEDULES[mid]

Data(mid) == rosters[SCHEDULES_get(mid)]

(***************************************************************************)
(* _update_schedule_message(guild, message_id): looks the roster up under  *)
(* message_id, fetches the message with that same id and edits it; a       *)
(* failed fetch is printed and nothing is edited.                          *)
(***************************************************************************)
_update_schedule_message(ms, S, R, mid) ==
    IF S[mid] = 0 THEN ms
    ELSE IF ~ms[mid].live THEN ms
    ELSE [ms EXCEPT ![mid].embed = RenderCall(R[S[mid]]).embed]

(***************************************************************************)
(* What a batch send leaves behind: the number of recipients (`to`), of    *)
(* sends attempted (`tried`) and of sends that went through (`got`), and   *)
(* the count the code reports (`count`).                                   *)
(***************************************************************************)
NoNote == [kind |-> "none", mid |-> 0, to |-> 0, tried |-> 0, got |-> 0, count |-> 0]

NoLast == [op |-> "init", mid |-> 0, uid |-> 0, moved |-> <<>>, dm |-> {},
           note |-> NoNote]

Did(op, mid, uid, moved) ==
    [op |-> op, mid |-> mid, uid |-> uid, moved |-> moved, dm |-> {},
     note |-> NoNote]

(***************************************************************************)
(* `last` names the last handler run that changed the program's state; a   *)
(* run that returns without a change is a stuttering step.                 *)
(***************************************************************************)
Mark(x) ==
    IF <<SCHEDULES, rosters, msgs, views, delq, pending, sched, sent, QUEUES, disk, closed>>'
         = <<SCHEDULES, rosters, msgs, views, delq, pending, sched, sent, QUEUES, disk, closed>>
    THEN last ELSE x

Idle == [pc |-> "sleep", items |-> <<>>, t |-> 0, label |-> 0, i |-> 0,
         size0 |-> 0, detached |-> FALSE, obj |-> {},
         sent_p |-> 0, sent_s |-> 0, tried |-> 0, got |-> 0]

NoSent == [r_2h |-> 0, r_30m |-> 0, r_0m |-> 0, survey |-> 0]

(***************************************************************************)
(* QUEUES (line 134) starts empty: QUEUES.get(act, []) and                 *)
(* _ensure_queue(act) read an absent key as the empty list, which is what  *)
(* the model keeps under every activity.  Neither queues.json nor          *)
(* queues.json.tmp exists before the first save.                           *)
(***************************************************************************)
Activities == {"raid", "dungeon", "trials"}

NoQueues == [a \in Activities |-> <<>>]

NoFile == [kind |-> "none", state |-> NoQueues]

NoDisk == [file |-> NoFile, tmp |-> NoFile]

Init ==
    /\ SCHEDULES = [k \in Mids |-> 0]
    /\ rosters = <<>>
    /\ msgs = <<>>
    /\ views = {}
    /\ delq = {}
    /\ pending = {}
    /\ sched = Idle
    /\ now = 0
    /\ sent = <<>>
    /\ QUEUES = NoQueues
    /\ disk = NoDisk
    /\ closed = {}
    /\ removals = {}
    /\ last = NoLast

(***************************************************************************)
(* /schedule.  founder_only admits the founder.  `sherpas` is the parsed   *)
(* set of pre-slotted Sherpas, `participants` the parsed (duplicate-free)  *)
(* list, `candidates` the members of the activity's waiting queue, who     *)
(* each get a ConfirmView; `alert` says where the Sherpa signup card went: *)
(* "signup" (RAID_SIGN_UP_CHANNEL_ID), "fallback" (the event channel) or   *)
(* "failed".                                                               *)
(***************************************************************************)
Dedup(seq, skip) ==
    LET F[i \in 0..Len(seq)] ==
            IF i = 0 THEN <<>>
            ELSE IF seq[i] \in skip \/ seq[i] \in Range(F[i - 1]) THEN F[i - 1]
            ELSE Append(F[i - 1], seq[i])
    IN  F[Len(seq)]

ScheduleData(promoter_id, activity, reserved_sherpas, sherpas, participants, start_ts) ==
    LET cap == _cap_for_activity(activity)
        reserved == Max(0, Min(reserved_sherpas, cap))
        participant_ids == IF promoter_id \in Range(participants) THEN participants
                           ELSE <<promoter_id>> \o participants
        slots == Max(0, cap - reserved)
        uniq_participants == Dedup(participant_ids, sherpas)
    IN  [type |-> "schedule",
         capacity |-> cap,
         reserved_sherpas |-> reserved,
         sherpas |-> sherpas,
         sherpa_backup |-> <<>>,
         players |-> Prefix(uniq_participants, slots),
         backups |-> Suffix(uniq_participants, slots),
         promoter_id |-> promoter_id,
         signups_open |-> FALSE,
         start_ts |-> start_ts,
         r_2h |-> FALSE, r_30m |-> FALSE, r_0m |-> FALSE,
         sherpa_alert_message_id |-> None]

(***************************************************************************)
(* The DMs to the entire queue (lines 2051-2067): one try block per        *)
(* candidate; `sent` counts the sends that did not raise, and only those   *)
(* deliver a ConfirmView.                                                  *)
(***************************************************************************)
RECURSIVE SelectionDMs(_, _, _)
SelectionDMs(candidates, i, acc) ==
    IF i > Len(candidates) THEN acc
    ELSE LET uid == candidates[i]
         IN  SelectionDMs(candidates, i + 1,
                          IF uid \in closed THEN acc
                          ELSE [sent |-> acc.sent + 1,
                                reached |-> acc.reached \cup {uid}])

schedule_cmd(invoker, activity, reserved_sherpas, sherpas, participants, start_ts, candidates, alert) ==
    /\ invoker = FOUNDER_USER_ID
    /\ Len(rosters) < MaxRosters
    /\ Len(msgs) + 2 <= MaxMid
    /\ LET mid == Len(msgs) + 1
           d0 == ScheduleData(invoker, activity, reserved_sherpas, sherpas,
                              participants, start_ts)
           d == [d0 EXCEPT !.sherpa_alert_message_id =
                               IF alert = "signup" THEN mid + 1 ELSE None]
           card == NewMsg("event", _render_event_embed(d), {"note", "cross"}, 0, 0)
           acard == NewMsg("alert", AlertEmbed, {"check", "repeat"}, mid, 0)
       IN  /\ rosters' = Append(rosters, d)
           /\ sent' = Append(sent, NoSent)
           /\ SCHEDULES' = [SCHEDULES EXCEPT ![mid] = Len(rosters) + 1]
           /\ msgs' = IF alert = "failed" THEN Append(msgs, card)
                      ELSE msgs \o <<card, acard>>
           /\ LET sel == SelectionDMs(SeqOf(candidates), 1, [sent |-> 0, reached |-> {}])
              IN  /\ views' = views \cup {[type |-> "confirm", mid |-> mid, uid |-> u] :
                                             u \in sel.reached}
                  /\ last' = [Did("schedule", mid, invoker, <<>>) EXCEPT
                                  !.note = [kind |-> "selection", mid |-> mid,
                                            to |-> Cardinality(candidates),
                                            tried |-> Cardinality(candidates),
                                            got |-> Cardinality(sel.reached),
                                            count |-> sel.sent]]
    /\ UNCHANGED <<delq, pending, sched, now, store>>

(***************************************************************************)
(* /event: a player-created roster; the host joins players                 *)
(* (EVENT_HOST_AUTOJOIN); the dictionary has no "reserved_sherpas" key.    *)
(***************************************************************************)
EventData(promoter_id, activity, start_ts) ==
    [type |-> "user_event",
     capacity |-> _cap_for_activity(activity),
     reserved_sherpas |-> 0,
     sherpas |-> {},
     sherpa_backup |-> <<>>,
     players |-> <<promoter_id>>,
     backups |-> <<>>,
     promoter_id |-> promoter_id,
     signups_open |-> FALSE,
     start_ts |-> start_ts,
     r_2h |-> FALSE, r_30m |-> FALSE, r_0m |-> FALSE,
     sherpa_alert_message_id |-> None]

event_cmd(invoker, activity, start_ts) ==
    /\ Len(rosters) < MaxRosters
    /\ Len(msgs) + 1 <= MaxMid
    /\ LET mid == Len(msgs) + 1
           d == EventData(invoker, activity, start_ts)
       IN  /\ rosters' = Append(rosters, d)
           /\ sent' = Append(sent, NoSent)
           /\ SCHEDULES' = [SCHEDULES EXCEPT ![mid] = Len(rosters) + 1]
           /\ msgs' = Append(msgs, NewMsg("event", _render_event_embed(d),
                                          {"check", "repeat", "cross"}, 0, 0))
           /\ last' = Did("event", mid, invoker, <<>>)
    /\ UNCHANGED <<views, delq, pending, sched, now, store>>

(***************************************************************************)
(* /event_sherpa: a Sherpa-only roster; the host is the first Sherpa.      *)
(***************************************************************************)
SherpaOnlyData(host_id, activity, slots, start_ts) ==
    [type |-> "sherpa_only",
     capacity |-> Max(1, Min(slots, _cap_for_activity(activity))),
     reserved_sherpas |-> 0,
     sherpas |-> {host_id},
     sherpa_backup |-> <<>>,
     players |-> <<>>,
     backups |-> <<>>,
     promoter_id |-> None,
     signups_open |-> FALSE,
     start_ts |-> start_ts,
     r_2h |-> FALSE, r_30m |-> FALSE, r_0m |-> FALSE,
     sherpa_alert_message_id |-> None]

event_sherpa_cmd(invoker, activity, slots, start_ts) ==
    /\ _is_sherpa(invoker) \/ _is_sherpa_assistant(invoker)
    /\ Len(rosters) < MaxRosters
    /\ Len(msgs) + 1 <= MaxMid
    /\ LET mid == Len(msgs) + 1
           d == SherpaOnlyData(invoker, activity, slots, start_ts)
       IN  /\ rosters' = Append(rosters, d)
           /\ sent' = Append(sent, NoSent)
           /\ SCHEDULES' = [SCHEDULES EXCEPT ![mid] = Len(rosters) + 1]
           /\ msgs' = Append(msgs, NewMsg("event", _render_sherpa_only_embed(d),
                                          {"check", "repeat", "cross"}, 0, 0))
           /\ last' = Did("event_sherpa", mid, invoker, <<>>)
    /\ UNCHANGED <<views, delq, pending, sched, now, store>>


(***************************************************************************)
(* What one run of a handler does to the roster it found: the dictionary   *)
(* afterwards, whether _update_schedule_message is called, the members     *)
(* promoted from backups, and whether the handler is suspended in          *)
(* _dm_promoted_users with more of its code still to run.                  *)
(***************************************************************************)
Res(d, render) == [data |-> d, render |-> render, moved |-> <<>>, suspend |-> FALSE]

ResM(d, render, moved, suspend) ==
    [data |-> d, render |-> render, moved |-> moved, suspend |-> suspend]

(***************************************************************************)
(* _dm_promoted_users (lines 1458-1471) attempts one send to each member   *)
(* of `moved`; the members it addresses.  A handler result that is         *)
(* suspended is suspended in this call.                                    *)
(***************************************************************************)
_dm_promoted_users(moved) == Range(moved)

Notices(res) == IF res.suspend THEN _dm_promoted_users(res.moved) ELSE {}

(***************************************************************************)
(* on_raw_reaction_add, the Sherpa signup card (lines 2260-2324).          *)
(***************************************************************************)
AlertClaim(d, uid) ==
    IF _user_in_any_event_list(d, uid) \in {"None", "sherpas"}
    THEN IF Cardinality(d.sherpas) < d.reserved_sherpas /\ uid \notin d.sherpas
         THEN [d EXCEPT !.sherpas = @ \cup {uid}]
         ELSE [d EXCEPT !.sherpa_backup = SetAdd(@, uid)]
    ELSE d

AlertAdd(d, uid, emoji) ==
    IF emoji \in {"check", "repeat"}
    THEN IF ~_is_sherpa_assistant(uid) THEN Res(d, FALSE)
         ELSE IF emoji = "check" THEN Res(AlertClaim(d, uid), TRUE)
         ELSE IF _user_in_any_event_list(d, uid) = "None"
              THEN Res([d EXCEPT !.sherpa_backup = SetAdd(@, uid)], TRUE)
              ELSE Res(d, FALSE)
    ELSE Res(d, FALSE)

(***************************************************************************)
(* on_raw_reaction_add, a Sherpa-only card (lines 2326-2380); a reaction   *)
(* that is not returned from there falls through to the main-card code,    *)
(* which works on fresh lists.                                             *)
(***************************************************************************)
SherpaOnlyAdd(d, uid, emoji) ==
    IF ~_is_sherpa(uid) THEN Res(d, FALSE)
    ELSE IF emoji = "check" THEN
        IF uid \notin d.sherpas /\ uid \notin Range(d.sherpa_backup)
        THEN IF Cardinality(d.sherpas) < d.capacity
             THEN Res([d EXCEPT !.sherpas = @ \cup {uid}], TRUE)
             ELSE Res([d EXCEPT !.sherpa_backup = Append(@, uid)], TRUE)
        ELSE Res(d, TRUE)
    ELSE IF emoji = "repeat" THEN
        IF uid \notin d.sherpas /\ uid \notin Range(d.sherpa_backup)
        THEN Res([d EXCEPT !.sherpa_backup = Append(@, uid)], TRUE)
        ELSE Res(d, TRUE)
    ELSE IF emoji = "cross" THEN
        IF uid \in d.sherpas
        THEN IF d.sherpa_backup # <<>>
             THEN ResM([d EXCEPT !.sherpas = (@ \ {uid}) \cup {Head(d.sherpa_backup)},
                                 !.sherpa_backup = Tail(@)],
                       TRUE, <<Head(d.sherpa_backup)>>, FALSE)
             ELSE Res([d EXCEPT !.sherpas = @ \ {uid}], TRUE)
        ELSE IF uid \in Range(d.sherpa_backup)
             THEN Res([d EXCEPT !.sherpa_backup = Without(@, uid)], TRUE)
             ELSE Res(d, FALSE)
    ELSE IF emoji = "note" THEN Res(d, _user_in_any_event_list(d, uid) = "None")
    ELSE Res(d, FALSE)

(***************************************************************************)
(* on_raw_reaction_add, the main event card (lines 2382-2508).             *)
(***************************************************************************)
LeaveSecond(d, uid) ==
    IF uid \in Range(d.backups) THEN WithLists(d, d.players, Without(d.backups, uid))
    ELSE d

LeaveFirst(d, uid) ==
    IF uid \in Range(d.players)
    THEN LET af == _autofill_from_backups(WithLists(d, Without(d.players, uid), d.backups))
         IN  IF af.moved # <<>> THEN ResM(af.data, FALSE, af.moved, TRUE)
             ELSE ResM(LeaveSecond(af.data, uid), TRUE, af.moved, FALSE)
    ELSE IF uid \in Range(d.backups) THEN Res(LeaveSecond(d, uid), TRUE)
    ELSE Res(d, FALSE)

JoinOpenOver(d, uid) ==
    IF _user_in_any_event_list(d, uid) # "None" THEN d
    ELSE IF Len(d.players) <= player_slots(d)
         THEN WithLists(d, Append(d.players, uid), d.backups)
         ELSE WithLists(d, d.players, Append(d.backups, uid))

JoinOpenHead(d, uid) ==
    IF _user_in_any_event_list(d, uid) # "None" THEN d
    ELSE IF Len(d.players) < player_slots(d)
         THEN WithLists(d, <<uid>> \o d.players, d.backups)
         ELSE WithLists(d, d.players, <<uid>> \o d.backups)

JoinOpen(d, uid) ==
    IF _user_in_any_event_list(d, uid) # "None" THEN d
    ELSE IF Len(d.players) < player_slots(d)
         THEN WithLists(d, Append(d.players, uid), d.backups)
         ELSE WithLists(d, d.players, Append(d.backups, uid))

AddBackupFront(d, uid) ==
    IF _user_in_any_event_list(d, uid) = "None"
    THEN WithLists(d, d.players, <<uid>> \o d.backups)
    ELSE d

AddBackup(d, uid) ==
    IF _user_in_any_event_list(d, uid) = "None"
    THEN WithLists(d, d.players, Append(d.backups, uid))
    ELSE d

JoinFormingOpen(d, uid) == JoinOpen(d, uid)

JoinForming(d, uid) == AddBackup(d, uid)

MainAdd(d, uid, emoji) ==
    IF d.type = "schedule" /\ (emoji = "other" \/ _is_sherpa(uid)) THEN Res(d, FALSE)
    ELSE IF emoji \in {"note", "repeat"}
         THEN Res(AddBackup(d, uid), _user_in_any_event_list(d, uid) = "None")
    ELSE IF emoji = "check"
         THEN IF ~d.signups_open THEN Res(JoinForming(d, uid), TRUE)
              ELSE Res(JoinOpen(d, uid), TRUE)
    ELSE IF emoji = "cross" THEN LeaveFirst(d, uid)
    ELSE Res(d, FALSE)

(***************************************************************************)
(* The key under which the Sherpa-signup loop finds the card: the first    *)
(* key of SCHEDULES whose roster names the message as its alert.           *)
(***************************************************************************)
AlertKeys(mid) == {k \in Keys : Data(k).sherpa_alert_message_id = mid}

AlertOwner(mid) ==
    IF AlertKeys(mid) = {} THEN 0
    ELSE CHOOSE k \in AlertKeys(mid) : \A j \in AlertKeys(mid) : k <= j

Live(mid) == mid \in DOMAIN msgs /\ msgs[mid].live

(***************************************************************************)
(* Store the handler's result on the roster found under `key`, re-render   *)
(* through `key` if the handler does, and park the handler if it is        *)
(* suspended.                                                              *)
(***************************************************************************)
Commit(key, res, cont) ==
    /\ res.suspend => Cardinality(pending) < MaxPending
    /\ rosters' = [rosters EXCEPT ![SCHEDULES_get(key)] = res.data]
    /\ msgs' = IF res.render
               THEN _update_schedule_message(msgs, SCHEDULES, rosters', key)
               ELSE msgs
    /\ pending' = IF res.suspend THEN pending \cup {cont} ELSE pending

Cont(op, mid, uid) == [op |-> op, mid |-> mid, uid |-> uid]

AddKey(mid) == IF AlertOwner(mid) # 0 THEN AlertOwner(mid) ELSE mid

AddResult(mid, uid, emoji) ==
    IF AlertOwner(mid) # 0 THEN AlertAdd(Data(AlertOwner(mid)), uid, emoji)
    ELSE IF Data(mid).type = "sherpa_only" THEN SherpaOnlyAdd(Data(mid), uid, emoji)
    ELSE MainAdd(Data(mid), uid, emoji)

(***************************************************************************)
(* msg.remove_reaction (lines 2319, 2403, 2420): the platform sends a      *)
(* reaction-remove event for the member whose reaction the bot removed.    *)
(* on_raw_reaction_remove returns at once on the events of lines 2319 (the *)
(* signup card is no key of SCHEDULES) and 2403 (the emoji is not the      *)
(* check), and on those of line 2420 for the other three emoji; what is    *)
(* kept in flight is the removal of a Sherpa's check from the main card    *)
(* of a /schedule roster.                                                  *)
(***************************************************************************)
RemovesCheck(mid, uid, emoji) ==
    /\ AlertOwner(mid) = 0
    /\ Data(mid).type = "schedule"
    /\ emoji = "check"
    /\ _is_sherpa(uid)

on_raw_reaction_add(mid, uid, emoji) ==
    /\ Live(mid)
    /\ AlertOwner(mid) # 0 \/ SCHEDULES_get(mid) # 0
    /\ LET k == AddKey(mid)
           res == AddResult(mid, uid, emoji)
       IN  /\ Commit(k, res, Cont("cross", k, uid))
           /\ views' = IF AlertOwner(mid) # 0 /\ emoji = "check"
                           /\ _is_sherpa_assistant(uid)
                        THEN views \cup {[type |-> "sherpa", mid |-> k, uid |-> uid]}
                        ELSE views
           /\ removals' = IF RemovesCheck(mid, uid, emoji)
                           THEN removals \cup {[mid |-> mid, uid |-> uid]}
                           ELSE removals
           /\ UNCHANGED <<SCHEDULES, delq, sched, now, sent, QUEUES, disk, closed>>
           /\ last' = Mark([Did((IF AlertOwner(mid) # 0 THEN "alert_" ELSE "add_")
                                     \o emoji, k, uid, res.moved)
                                 EXCEPT !.dm = Notices(res)])

(***************************************************************************)
(* on_raw_reaction_remove (lines 2510-2564).                               *)
(***************************************************************************)
SherpaOnlyRemove(d, uid, emoji) ==
    IF emoji = "check" /\ uid \in d.sherpas
    THEN IF d.sherpa_backup # <<>> /\ Cardinality(d.sherpas \ {uid}) < d.capacity
         THEN ResM([d EXCEPT !.sherpas = (@ \ {uid}) \cup {Head(d.sherpa_backup)},
                             !.sherpa_backup = Tail(@)],
                   TRUE, <<Head(d.sherpa_backup)>>, FALSE)
         ELSE Res([d EXCEPT !.sherpas = @ \ {uid}], TRUE)
    ELSE IF emoji = "repeat" /\ uid \in Range(d.sherpa_backup)
    THEN Res([d EXCEPT !.sherpa_backup = Without(@, uid)], TRUE)
    ELSE Res(d, FALSE)

MainRemove(d, uid, emoji) ==
    IF emoji = "check"
    THEN IF d.signups_open
         THEN IF uid \in Range(d.players)
              THEN LET af == _autofill_from_backups(
                                 WithLists(d, Without(d.players, uid), d.backups))
                   IN  ResM(af.data, af.moved = <<>>, af.moved, af.moved # <<>>)
              ELSE Res(d, FALSE)
         ELSE IF uid \in Range(d.backups)
              THEN Res(WithLists(d, d.players, Without(d.backups, uid)), TRUE)
              ELSE Res(d, FALSE)
    ELSE Res(d, FALSE)

RemoveResult(mid, uid, emoji) ==
    IF Data(mid).type = "sherpa_only" THEN SherpaOnlyRemove(Data(mid), uid, emoji)
    ELSE MainRemove(Data(mid), uid, emoji)

on_raw_reaction_remove(mid, uid, emoji) ==
    /\ Live(mid)
    /\ SCHEDULES_get(mid) # 0
    /\ LET res == RemoveResult(mid, uid, emoji)
       IN  /\ Commit(mid, res, Cont("uncheck", mid, uid))
           /\ UNCHANGED <<SCHEDULES, views, delq, sched, now, store, sent>>
           /\ last' = Mark([Did("remove_" \o emoji, mid, uid, res.moved)
                                 EXCEPT !.dm = Notices(res)])

(***************************************************************************)
(* on_raw_reaction_remove for the event that the bot's own removal of a    *)
(* check set off.                                                          *)
(***************************************************************************)
reaction_removed(ev) ==
    /\ ev \in removals
    /\ removals' = removals \ {ev}
    /\ SCHEDULES_get(ev.mid) # 0
    /\ LET res == RemoveResult(ev.mid, ev.uid, "check")
       IN  /\ Commit(ev.mid, res, Cont("uncheck", ev.mid, ev.uid))
           /\ UNCHANGED <<SCHEDULES, views, delq, sched, now, sent, QUEUES, disk, closed>>
           /\ last' = Mark([Did("removed_check", ev.mid, ev.uid, res.moved)
                                 EXCEPT !.dm = Notices(res)])

(***************************************************************************)
(* A handler suspended in _dm_promoted_users runs on: the reaction handler *)
(* for the cross and /leave test `uid in backups` again and re-render;     *)
(* the handler of a removed check re-renders.                              *)
(***************************************************************************)
Resume(p) ==
    /\ p \in pending
    /\ pending' = pending \ {p}
    /\ rosters' = [rosters EXCEPT ![SCHEDULES[p.mid]] =
                       IF p.op \in {"cross", "leave"} THEN LeaveSecond(@, p.uid) ELSE @]
    /\ msgs' = _update_schedule_message(msgs, SCHEDULES, rosters', p.mid)
    /\ UNCHANGED <<SCHEDULES, views, delq, sched, now, store, sent>>
    /\ last' = Did("resume_" \o p.op, p.mid, p.uid, <<>>)


(***************************************************************************)
(* The scheduler's iteration over the set data["sherpas"] in               *)
(* _send_reminders holds the set object.  A call that binds                *)
(* data["sherpas"] to a new set object leaves the iterated object as it    *)
(* was; set.add and set.discard change the iterated object itself.         *)
(***************************************************************************)
Detach(rid) ==
    IF sched.pc = "dm_s" /\ SCHEDULES[sched.items[1]] = rid /\ ~sched.detached
    THEN [sched EXCEPT !.detached = TRUE, !.obj = rosters[rid].sherpas]
    ELSE sched

(***************************************************************************)
(* /leave with a message id (lines 935-956).                               *)
(***************************************************************************)
leave_cmd(uid, mid) ==
    /\ SCHEDULES_get(mid) # 0
    /\ LET res == LeaveFirst(Data(mid), uid)
       IN  /\ Commit(mid, res, Cont("leave", mid, uid))
           /\ UNCHANGED <<SCHEDULES, views, delq, sched, now, store, sent>>
           /\ last' = Mark([Did("leave", mid, uid, res.moved)
                                 EXCEPT !.dm = Notices(res)])

(***************************************************************************)
(* /add with a message id (lines 1194-1217).                               *)
(***************************************************************************)
AddMember(d, uid) == JoinOpen(d, uid)

AddCommand(invoker, d, uid) ==
    IF ~_is_promoter_or_founder(invoker, d) THEN Res(d, FALSE)
    ELSE Res(AddMember(d, uid), _user_in_any_event_list(d, uid) = "None")

add_cmd(invoker, uid, mid) ==
    /\ SCHEDULES_get(mid) # 0
    /\ Commit(mid, AddCommand(invoker, Data(mid), uid), Cont("none", mid, uid))
    /\ UNCHANGED <<SCHEDULES, views, delq, sched, now, store, sent>>
    /\ last' = Mark(Did("add", mid, uid, <<>>))

(***************************************************************************)
(* /remove with a message id (lines 1247-1267); founder_only.              *)
(***************************************************************************)
RemoveMember(d, uid) ==
    IF uid \in Range(d.players)
    THEN LET af == _autofill_from_backups(WithLists(d, Without(d.players, uid), d.backups))
         IN  ResM(LeaveSecond(af.data, uid), TRUE, af.moved, FALSE)
    ELSE IF uid \in Range(d.backups) THEN Res(LeaveSecond(d, uid), TRUE)
    ELSE Res(d, FALSE)

founder_only(invoker) == invoker = FOUNDER_USER_ID

RemoveCommand(invoker, d, uid) ==
    IF ~founder_only(invoker) THEN Res(d, FALSE)
    ELSE IF ~_is_promoter_or_founder(invoker, d) THEN Res(d, FALSE)
    ELSE RemoveMember(d, uid)

remove_cmd(invoker, uid, mid) ==
    /\ SCHEDULES_get(mid) # 0
    /\ LET res == RemoveCommand(invoker, Data(mid), uid)
       IN  /\ Commit(mid, res, Cont("none", mid, uid))
           /\ UNCHANGED <<SCHEDULES, views, delq, sched, now, store, sent>>
           /\ last' = Mark([Did("remove", mid, uid, res.moved)
                                 EXCEPT !.dm = Notices(res)])

(***************************************************************************)
(* /promote (lines 976-1098): the event is auto-detected: the latest card  *)
(* in the invoking channel whose promoter (or the founder) invokes, else   *)
(* the invoker's latest event.  The event's "sherpas" then takes the user. *)
(* A Sherpa-only roster keeps sherpa_backup in a list, which has no        *)
(* discard: the exception ends the block.                                  *)
(***************************************************************************)
ChannelOf(d) == IF d.type = "sherpa_only" THEN "signup" ELSE "event"

PromoteKeys(invoker, channel) ==
    LET in_channel == {k \in Keys : ChannelOf(Data(k)) = channel
                                    /\ (Data(k).promoter_id = invoker
                                        \/ invoker = FOUNDER_USER_ID)}
        owned == {k \in Keys : Data(k).promoter_id = invoker}
    IN  IF in_channel # {} THEN in_channel ELSE owned

Promote(d, uid) ==
    IF d.type = "sherpa_only" /\ uid \in Range(d.sherpa_backup) THEN Res(d, FALSE)
    ELSE Res([d EXCEPT !.sherpa_backup = Without(@, uid),
                       !.sherpas = @ \cup {uid}], TRUE)

promote_cmd(invoker, user, channel) ==
    /\ PromoteKeys(invoker, channel) # {}
    /\ LET ks == PromoteKeys(invoker, channel)
           selected_mid == CHOOSE k \in ks : \A j \in ks : j <= k
       IN  /\ Commit(selected_mid, Promote(Data(selected_mid), user),
                     Cont("none", selected_mid, user))
           /\ UNCHANGED <<SCHEDULES, views, delq, sched, now, store, sent>>
           /\ last' = Mark(Did("promote", selected_mid, user, <<>>))

(***************************************************************************)
(* ConfirmView (lines 1344-1391): the buttons of a selection DM.           *)
(***************************************************************************)
ConfirmYesSoft(d, uid) ==
    IF d.signups_open /\ Len(d.players) < player_slots(d)
    THEN _append_unique_to(d, "players", uid).data
    ELSE _append_unique_to(d, "backups", uid).data

ConfirmYes(d, uid) ==
    IF Len(d.players) < player_slots(d)
    THEN _append_unique_to(d, "players", uid).data
    ELSE _append_unique_to(d, "backups", uid).data

ConfirmNo(d, uid) ==
    IF uid \in Range(d.players)
    THEN _autofill_from_backups(WithLists(d, Without(d.players, uid), d.backups))
    ELSE [data |-> d, moved |-> <<>>]

ConfirmView_yes(v) ==
    /\ v \in views /\ v.type = "confirm"
    /\ SCHEDULES_get(v.mid) # 0
    /\ Commit(v.mid, Res(ConfirmYes(Data(v.mid), v.uid), TRUE), Cont("none", v.mid, v.uid))
    /\ UNCHANGED <<SCHEDULES, views, delq, sched, now, store, sent>>
    /\ last' = Mark(Did("confirm_yes", v.mid, v.uid, <<>>))

ConfirmView_no(v) ==
    /\ v \in views /\ v.type = "confirm"
    /\ SCHEDULES_get(v.mid) # 0
    /\ LET r == ConfirmNo(Data(v.mid), v.uid) IN
       /\ Commit(v.mid, Res(r.data, TRUE), Cont("none", v.mid, v.uid))
       /\ UNCHANGED <<SCHEDULES, views, delq, sched, now, store, sent>>
       /\ last' = Mark(Did("confirm_no", v.mid, v.uid, r.moved))

(***************************************************************************)
(* SherpaConfirmView (lines 1393-1439): the buttons of a Sherpa claim DM.  *)
(***************************************************************************)
SherpaYes(d, uid) ==
    IF uid \in d.sherpas THEN Res(d, FALSE)
    ELSE IF Cardinality(d.sherpas) < d.reserved_sherpas
         THEN Res(_append_unique_to(d, "sherpas", uid).data, TRUE)
         ELSE Res(_append_unique_to(d, "sherpa_backup", uid).data, TRUE)

SherpaNo(d, uid) ==
    [d EXCEPT !.sherpas = @ \ {uid}, !.sherpa_backup = Without(@, uid)]

SherpaConfirmView_yes(v) ==
    /\ v \in views /\ v.type = "sherpa"
    /\ SCHEDULES_get(v.mid) # 0
    /\ LET d == Data(v.mid)
           res == SherpaYes(d, v.uid) IN
       /\ Commit(v.mid, res, Cont("none", v.mid, v.uid))
       /\ sched' = IF res.data.sherpas # d.sherpas THEN Detach(SCHEDULES[v.mid])
                   ELSE sched
    /\ UNCHANGED <<SCHEDULES, views, delq, now, store, sent>>
    /\ last' = Mark(Did("sherpa_yes", v.mid, v.uid, <<>>))

SherpaConfirmView_no(v) ==
    /\ v \in views /\ v.type = "sherpa"
    /\ SCHEDULES_get(v.mid) # 0
    /\ Commit(v.mid, Res(SherpaNo(Data(v.mid), v.uid), TRUE), Cont("none", v.mid, v.uid))
    /\ UNCHANGED <<SCHEDULES, views, delq, sched, now, store, sent>>
    /\ last' = Mark(Did("sherpa_no", v.mid, v.uid, <<>>))

(***************************************************************************)
(* A message is deleted on the platform; on_message_delete (lines          *)
(* 1677-1765) renders the roster found under the deleted id and posts the  *)
(* card again (`posted`: _send_to_channel_id returned a message).  The     *)
(* handler is suspended in that send; when it runs on it adds the          *)
(* reactions, registers the new id beside the old one and re-links the     *)
(* Sherpa signup card.  An entry of `delq` is a deleted message and the    *)
(* message posted for it so far (0: the handler has not run).              *)
(***************************************************************************)
Gone(m) == [m EXCEPT !.live = FALSE, !.embed = AlertEmbed, !.reactions = {}, !.link = 0]

DeleteMessage(mid) ==
    /\ Live(mid)
    /\ msgs' = [msgs EXCEPT ![mid] = Gone(@)]
    /\ delq' = delq \cup {[mid |-> mid, new |-> 0]}
    /\ last' = Did("delete", mid, 0, <<>>)
    /\ UNCHANGED <<SCHEDULES, rosters, views, pending, sched, now, store, sent>>

RestoreReactions(d) ==
    IF d.type = "sherpa_only" THEN {"check", "repeat", "cross"}
    ELSE {"note", "repeat", "cross"}

Relink(ms, alert_mid, new_mid) ==
    IF alert_mid # None /\ ms[alert_mid].live
    THEN [ms EXCEPT ![alert_mid].link = new_mid]
    ELSE ms

RegisterNewOnly(S, old_mid, new_mid) ==
    [S EXCEPT ![new_mid] = S[old_mid], ![old_mid] = 0]

Register(S, old_mid, new_mid) ==
    [S EXCEPT ![new_mid] = S[old_mid], ![old_mid] = S[old_mid]]

on_message_delete(mid, posted) ==
    /\ [mid |-> mid, new |-> 0] \in delq
    /\ IF SCHEDULES[mid] = 0 \/ ~posted
       THEN /\ delq' = delq \ {[mid |-> mid, new |-> 0]}
            /\ msgs' = msgs
       ELSE /\ Len(msgs) < MaxMid
            /\ msgs' = Append(msgs, NewMsg("event", Render(Data(mid)), {}, 0, mid))
            /\ delq' = (delq \ {[mid |-> mid, new |-> 0]})
                           \cup {[mid |-> mid, new |-> Len(msgs) + 1]}
    /\ UNCHANGED <<SCHEDULES, rosters, views, pending, sched, now, store, sent>>
    /\ last' = Did(IF msgs' # msgs THEN "repost" ELSE "repost_none", mid, 0, <<>>)

on_message_delete_register(e) ==
    /\ e \in delq /\ e.new # 0
    /\ delq' = delq \ {e}
    /\ SCHEDULES' = Register(SCHEDULES, e.mid, e.new)
    /\ LET d == Data(e.mid)
           ms == IF msgs[e.new].live
                 THEN [msgs EXCEPT ![e.new].reactions = RestoreReactions(d)]
                 ELSE msgs
       IN  msgs' = Relink(ms, d.sherpa_alert_message_id, e.new)
    /\ UNCHANGED <<rosters, views, pending, sched, now, store, sent>>
    /\ last' = Did("restore", e.new, 0, <<>>)

(***************************************************************************)
(* _scheduler_loop (lines 1522-1595) and _send_reminders (1608-1648).      *)
(*                                                                         *)
(* The task is suspended in asyncio.sleep ("sleep"), in the message fetch  *)
(* that follows the opening of signups ("opened"), or in the DM to a       *)
(* player ("dm_p") or to a Sherpa ("dm_s") of a reminder batch.  Between   *)
(* two suspensions it runs through the positions "item" (the for loop      *)
(* over the snapshot list(SCHEDULES.items())), "remind" (the loop over the *)
(* three labels), "loop_p" and "loop_s" (next() of the two for loops of    *)
(* _send_reminders) and "flag" (data[key] = True).                         *)
(*                                                                         *)
(* The list data["players"] is iterated by index `i`; the set              *)
(* data["sherpas"] is iterated in slot order, which for small integers is  *)
(* increasing order: `i` is the element returned last.  next() on a set    *)
(* whose size differs from the size at the start of the loop raises        *)
(* RuntimeError, which leaves _send_reminders and ends the pass at the     *)
(* `except Exception` of the loop.                                         *)
(***************************************************************************)
LabelKeyReversed == <<"r_0m", "r_30m", "r_2h">>

LabelKey == <<"r_2h", "r_30m", "r_0m">>

LabelDelta == <<TwoHours, ThirtyMin, 0>>

LFG_CHAT_CHANNEL_ID == TRUE

OpenDueAnytime(d, t) ==
    /\ d.type # "sherpa_only"
    /\ ~d.signups_open
    /\ Len(d.players) < player_slots(d)

OpenDue(d, t) ==
    /\ d.type # "sherpa_only"
    /\ ~d.signups_open
    /\ t >= d.start_ts - TwoHours
    /\ Len(d.players) < player_slots(d)

ReminderDue(d, l, t) == ~d[LabelKey[l]] /\ t >= d.start_ts - LabelDelta[l]

SortedKeys ==
    LET F[n \in 0..MaxMid] ==
            IF n = 0 THEN <<>>
            ELSE IF SCHEDULES[n] # 0 THEN Append(F[n - 1], n) ELSE F[n - 1]
    IN  F[MaxMid]

(***************************************************************************)
(* dm(uid) of _send_reminders (lines 1630-1642): True when the send went   *)
(* through, False when it raised.  The loops count the True results        *)
(* (lines 1644-1648); nothing else reads the counters, and the model       *)
(* counts the send when it is issued.                                      *)
(***************************************************************************)
dmAlways(uid) == TRUE

dm(uid) == uid \notin closed

Counted(s, uid, counter) ==
    [s EXCEPT !.tried = @ + 1,
              !.got = IF uid \in closed THEN @ ELSE @ + 1,
              ![counter] = IF dm(uid) THEN @ + 1 ELSE @]

(***************************************************************************)
(* `if not start_ts: continue` (line 1529): on to the next item of the     *)
(* snapshot.                                                               *)
(***************************************************************************)
Break(c) == [c EXCEPT !.s = Idle]

Continue(c) == [c EXCEPT !.s.items = Tail(@)]

(***************************************************************************)
(* The end of _send_reminders (lines 1650-1671): for the label "start"     *)
(* the survey task is created; `survey` counts the tasks created for the   *)
(* roster.                                                                 *)
(***************************************************************************)
survey_task(n, label) ==
    IF LabelKey[label] = "r_0m" THEN [n EXCEPT !.survey = Min(@ + 1, MaxSent)] ELSE n

Micro(c) ==
    LET s == c.s
        rid == SCHEDULES[Head(s.items)]
        d == c.R[rid]
    IN
    IF s.pc = "item" THEN
        IF s.items = <<>> THEN [c EXCEPT !.s = Idle]
        ELSE IF d.start_ts = 0 THEN Continue(c)
        ELSE IF OpenDue(d, s.t)
             THEN LET af == _autofill_from_backups([d EXCEPT !.signups_open = TRUE])
                  IN  [c EXCEPT !.R[rid] = af.data, !.moved = af.moved,
                                !.s.pc = "opened"]
        ELSE [c EXCEPT !.s.pc = "remind", !.s.label = 1]
    ELSE IF s.pc = "remind" THEN
        IF s.label > 3 THEN [c EXCEPT !.s.pc = "item", !.s.items = Tail(@), !.s.label = 0]
        ELSE IF ReminderDue(d, s.label, s.t)
             THEN [c EXCEPT !.snt[rid][LabelKey[s.label]] = Min(@ + 1, MaxSent),
                            !.s.pc = "loop_p", !.s.i = 0,
                            !.s.sent_p = 0, !.s.sent_s = 0,
                            !.s.tried = 0, !.s.got = 0]
        ELSE [c EXCEPT !.s.label = @ + 1]
    ELSE IF s.pc = "loop_p" THEN
        IF s.i < Len(d.players)
        THEN [c EXCEPT !.s = [Counted(s, d.players[s.i + 1], "sent_p")
                                 EXCEPT !.pc = "dm_p", !.i = s.i + 1]]
        ELSE [c EXCEPT !.s.pc = "loop_s", !.s.i = 0,
                       !.s.size0 = Cardinality(d.sherpas)]
    ELSE IF s.pc = "loop_s" THEN
        LET sherpas == IF s.detached THEN s.obj ELSE d.sherpas
            rest == {u \in sherpas : u > s.i}
        IN  IF Cardinality(sherpas) # s.size0 THEN [c EXCEPT !.s = Idle]
            ELSE IF rest = {}
                 THEN [c EXCEPT !.s.pc = "flag", !.s.i = 0, !.s.size0 = 0,
                                !.s.detached = FALSE, !.s.obj = {}]
            ELSE LET nxt == CHOOSE u \in rest : \A w \in rest : u <= w
                 IN  [c EXCEPT !.s = [Counted(s, nxt, "sent_s")
                                          EXCEPT !.pc = "dm_s", !.i = nxt]]
    ELSE [c EXCEPT !.R[rid][LabelKey[s.label]] = TRUE,
                   !.snt[rid] = survey_task(@, s.label),
                   !.note = [kind |-> LabelKey[s.label], mid |-> Head(s.items),
                             to |-> Len(d.players) + Cardinality(d.sherpas),
                             tried |-> s.tried, got |-> s.got,
                             count |-> s.sent_p + s.sent_s],
                   !.s.sent_p = 0, !.s.sent_s = 0, !.s.tried = 0, !.s.got = 0,
                   !.s.pc = "remind", !.s.label = @ + 1]

Suspended(s) == s.pc \in {"sleep", "opened", "dm_p", "dm_s"}

RECURSIVE Run(_)
Run(c) == IF Suspended(c.s) THEN c ELSE Run(Micro(c))

(***************************************************************************)
(* The task runs on from its suspension point to the next one.             *)
(***************************************************************************)
Config(s) == [R |-> rosters, snt |-> sent, moved |-> <<>>, note |-> NoNote, s |-> s]


Wake ==
    IF sched.pc = "sleep"
    THEN Config([sched EXCEPT !.pc = "item", !.items = SortedKeys, !.t = now])
    ELSE IF sched.pc = "opened"
    THEN LET rid == SCHEDULES[Head(sched.items)]
             af == IF LFG_CHAT_CHANNEL_ID THEN _autofill_from_backups(rosters[rid])
                   ELSE [data |-> rosters[rid], moved |-> <<>>]
         IN  [R |-> [rosters EXCEPT ![rid] = af.data], snt |-> sent,
              moved |-> af.moved, note |-> NoNote,
              s |-> [sched EXCEPT !.pc = "remind", !.label = 1]]
    ELSE IF sched.pc = "dm_p" THEN Config([sched EXCEPT !.pc = "loop_p"])
    ELSE Config([sched EXCEPT !.pc = "loop_s"])

_scheduler_loop ==
    /\ \E c \in {Run(Wake)} :
       LET mid == IF sched.items = <<>> THEN 0 ELSE Head(sched.items)
       IN  /\ rosters' = c.R
           /\ sent' = c.snt
           /\ sched' = c.s
           /\ msgs' = IF sched.pc = "opened" /\ Live(mid)
                      THEN [msgs EXCEPT ![mid].reactions =
                                            @ \cup {"check", "note", "cross"}]
                      ELSE msgs
           /\ UNCHANGED <<SCHEDULES, views, delq, pending, now, store>>
           /\ last' = Mark([Did("sched_" \o sched.pc,
                                     IF c.s.items = <<>> THEN mid ELSE Head(c.s.items),
                                     0, c.moved)
                                 EXCEPT !.dm = _dm_promoted_users(c.moved),
                                        !.note = c.note])

(***************************************************************************)
(* The waiting queues.                                                     *)
(*                                                                         *)
(* _write_queues_to_disk (lines 560-585) writes the snapshot to            *)
(* queues.json.tmp, flushes it and renames it over queues.json.  `stop`    *)
(* is where the process stops: with the temporary file opened              *)
(* ("tmp_open": truncated), partly written ("tmp_torn"), written and not   *)
(* yet renamed ("tmp_written"), or not at all within the save ("done").    *)
(* WriteInPlace is the save without the temporary file.                    *)
(***************************************************************************)
SavePoints == {"tmp_open", "tmp_torn", "tmp_written", "done"}

Json(state) == [kind |-> "json", state |-> state]

Torn == [kind |-> "torn", state |-> NoQueues]

WriteInPlace(D, state, stop) ==
    IF stop \in {"tmp_open", "tmp_torn"} THEN [D EXCEPT !.file = Torn]
    ELSE [D EXCEPT !.file = Json(state)]

_write_queues_to_disk(D, state, stop) ==
    IF stop \in {"tmp_open", "tmp_torn"} THEN [D EXCEPT !.tmp = Torn]
    ELSE IF stop = "tmp_written" THEN [D EXCEPT !.tmp = Json(state)]
    ELSE [file |-> Json(state), tmp |-> NoFile]

(***************************************************************************)
(* _read_queues_from_disk (lines 536-558): a missing file and a file that  *)
(* json.load rejects both read as {}.                                      *)
(***************************************************************************)
_read_queues_from_disk(D) == IF D.file.kind = "json" THEN D.file.state ELSE NoQueues

(***************************************************************************)
(* persist_queues (lines 587-589) under QUEUES_LOCK; the save has no       *)
(* await inside, so it is one step of the event loop.  When the process    *)
(* stops within the save it is started again: the rosters, the views and   *)
(* the tasks of the old process are gone, the platform keeps its messages, *)
(* and on_ready (line 787) loads QUEUES from queues.json.                  *)
(***************************************************************************)
persist_queues(Q, stop, op, uid) ==
    LET D == _write_queues_to_disk(disk, Q, stop) IN
    /\ disk' = D
    /\ IF stop = "done"
       THEN /\ QUEUES' = Q
            /\ UNCHANGED <<SCHEDULES, rosters, views, delq, pending, sched, sent, removals>>
            /\ last' = Did(op, 0, uid, <<>>)
       ELSE /\ QUEUES' = _read_queues_from_disk(D)
            /\ SCHEDULES' = [k \in Mids |-> 0]
            /\ rosters' = <<>>
            /\ views' = {}
            /\ delq' = {}
            /\ pending' = {}
            /\ sched' = Idle
            /\ sent' = <<>>
            /\ removals' = {}
            /\ last' = Did("stopped", 0, uid, <<>>)
    /\ UNCHANGED <<msgs, now, closed>>

(***************************************************************************)
(* /join (lines 907-928).                                                  *)
(***************************************************************************)
JoinQueue(Q, uid, act) ==
    LET in_any == {a \in Activities : uid \in Range(Q[a])} IN
    IF _is_sherpa(uid) THEN Q
    ELSE IF act \in in_any THEN Q
    ELSE IF Cardinality(in_any) >= 2 THEN Q
    ELSE [Q EXCEPT ![act] = Append(@, uid)]

join_cmd(uid, act, stop) ==
    /\ JoinQueue(QUEUES, uid, act) # QUEUES
    /\ persist_queues(JoinQueue(QUEUES, uid, act), stop, "join", uid)

(***************************************************************************)
(* /leave with an activity (lines 957-968).                                *)
(***************************************************************************)
LeaveQueue(Q, uid, act) ==
    IF uid \in Range(Q[act]) THEN [Q EXCEPT ![act] = Without(@, uid)] ELSE Q

leave_cmd_activity(uid, act, stop) ==
    /\ LeaveQueue(QUEUES, uid, act) # QUEUES
    /\ persist_queues(LeaveQueue(QUEUES, uid, act), stop, "leave_queue", uid)

(***************************************************************************)
(* /add with an activity (lines 1219-1233): any invoker.                   *)
(***************************************************************************)
AddQueueTwice(Q, uid, act) == [Q EXCEPT ![act] = Append(@, uid)]

AddQueue(Q, uid, act) ==
    IF uid \in Range(Q[act]) THEN Q ELSE [Q EXCEPT ![act] = Append(@, uid)]

add_cmd_activity(invoker, uid, act, stop) ==
    /\ invoker \in Members
    /\ AddQueue(QUEUES, uid, act) # QUEUES
    /\ persist_queues(AddQueue(QUEUES, uid, act), stop, "add_queue", uid)

(***************************************************************************)
(* /remove with an activity (lines 1269-1282); founder_only.               *)
(***************************************************************************)
RemoveQueue(Q, uid, act) ==
    IF uid \in Range(Q[act]) THEN [Q EXCEPT ![act] = Without(@, uid)] ELSE Q

remove_cmd_activity(invoker, uid, act, stop) ==
    /\ invoker = FOUNDER_USER_ID
    /\ RemoveQueue(QUEUES, uid, act) # QUEUES
    /\ persist_queues(RemoveQueue(QUEUES, uid, act), stop, "remove_queue", uid)

(***************************************************************************)
(* _autosave_loop (lines 1598-1606): the periodic save.                    *)
(***************************************************************************)
_autosave_loop(stop) == persist_queues(QUEUES, stop, "autosave", 0)

(***************************************************************************)
(* A member closes or opens their DMs: create_dm / send to a member who    *)
(* has them closed raises (discord.Forbidden).                             *)
(***************************************************************************)
ToggleDMs(uid) ==
    /\ closed' = IF uid \in closed THEN closed \ {uid} ELSE closed \cup {uid}
    /\ UNCHANGED <<SCHEDULES, rosters, msgs, views, delq, pending, sched, now, sent,
                   QUEUES, disk, removals, last>>

(***************************************************************************)
(* The clock.                                                              *)
(***************************************************************************)
Tick ==
    /\ now < MaxNow * ClockStep
    /\ now' = now + ClockStep
    /\ UNCHANGED <<SCHEDULES, rosters, msgs, views, delq, pending, sched, sent, store, last>>


(***************************************************************************)
(* A reaction that the bot leaves on the card.  The specifications below   *)
(* that do not deliver the removal events take only such reactions from    *)
(* the members; a Sherpa's check on the main card of a /schedule roster,   *)
(* which the bot removes, is taken in NextBlocked.                         *)
(***************************************************************************)
Kept(mid, uid, emoji) ==
    ~(Live(mid) /\ SCHEDULES[mid] # 0 /\ RemovesCheck(mid, uid, emoji))

(***************************************************************************)
(* The inputs of the commands.                                             *)
(***************************************************************************)
ReservedArgs == {1, 2}
SherpaArgs == {{}, {3}, {2, 3}}
ParticipantArgs == {<<>>, <<2, 3>>}
StartArgs == {0, StartSoon, StartLater}
QueueArgs == {{}, {2}}
AlertOutcomes == {"signup", "fallback", "failed"}
Channels == {"event", "signup"}

Next ==
    \/ \E r \in ReservedArgs, sh \in SherpaArgs, ps \in ParticipantArgs,
          st \in StartArgs, q \in QueueArgs, al \in AlertOutcomes :
          schedule_cmd(FOUNDER_USER_ID, "dungeon", r, sh, ps, st, q, al)
    \/ \E u \in Members, st \in StartArgs : event_cmd(u, "dungeon", st)
    \/ \E u \in Members, n \in {1, 2}, st \in StartArgs : event_sherpa_cmd(u, "raid", n, st)
    \/ \E mid \in Mids, u \in Members, e \in Emoji : on_raw_reaction_add(mid, u, e)
    \/ \E ev \in removals : reaction_removed(ev)
    \/ \E mid \in Mids, u \in Members, e \in Emoji : on_raw_reaction_remove(mid, u, e)
    \/ \E p \in pending : Resume(p)
    \/ \E u \in Members, mid \in Mids : leave_cmd(u, mid)
    \/ \E inv \in Members, u \in Members, mid \in Mids : add_cmd(inv, u, mid)
    \/ \E inv \in Members, u \in Members, mid \in Mids : remove_cmd(inv, u, mid)
    \/ \E inv \in Members, u \in Members, ch \in Channels : promote_cmd(inv, u, ch)
    \/ \E v \in views : ConfirmView_yes(v)
    \/ \E v \in views : ConfirmView_no(v)
    \/ \E v \in views : SherpaConfirmView_yes(v)
    \/ \E v \in views : SherpaConfirmView_no(v)
    \/ \E mid \in Mids : DeleteMessage(mid)
    \/ \E mid \in Mids, posted \in BOOLEAN : on_message_delete(mid, posted)
    \/ \E e \in delq : on_message_delete_register(e)
    \/ _scheduler_loop
    \/ Tick

Spec == Init /\ [][Next]_vars


(***************************************************************************)
(* The participant lists: the environment posts /schedule and /event       *)
(* rosters, reacts on the event card, uses /leave, /add and /remove and    *)
(* the buttons of the selection DM, while the scheduler runs.              *)
(***************************************************************************)
PlayersArgs ==
    {[reserved |-> 1, participants |-> <<>>],
     [reserved |-> 2, participants |-> <<2, 3>>]}

NextPlayers ==
    \/ rosters = <<>> /\ \E a \in PlayersArgs :
          schedule_cmd(FOUNDER_USER_ID, "dungeon", a.reserved, {}, a.participants,
                       StartLater, {2}, "failed")
    \/ rosters = <<>> /\ event_cmd(2, "dungeon", StartLater)
    \/ \E mid \in Mids, u \in Members, e \in Emoji :
          Kept(mid, u, e) /\ on_raw_reaction_add(mid, u, e)
    \/ \E mid \in Mids, u \in Members, e \in Emoji : on_raw_reaction_remove(mid, u, e)
    \/ \E p \in pending : Resume(p)
    \/ \E u \in Members, mid \in Mids : leave_cmd(u, mid)
    \/ \E inv \in Members, u \in Members, mid \in Mids : add_cmd(inv, u, mid)
    \/ \E inv \in Members, u \in Members, mid \in Mids : remove_cmd(inv, u, mid)
    \/ \E v \in views : ConfirmView_yes(v)
    \/ \E v \in views : ConfirmView_no(v)
    \/ _scheduler_loop
    \/ Tick

SpecPlayers == Init /\ [][NextPlayers]_vars


(***************************************************************************)
(* The Sherpa lists: the environment posts /schedule rosters with          *)
(* pre-slotted Sherpas and Sherpa-only rosters, reacts on the event card,  *)
(* on the Sherpa signup card and on the Sherpa-only card, uses /promote    *)
(* and the buttons of the Sherpa claim DM.                                 *)
(***************************************************************************)
NextRoles ==
    \/ rosters = <<>> /\ \E r \in ReservedArgs, sh \in SherpaArgs :
          schedule_cmd(FOUNDER_USER_ID, "dungeon", r, sh, <<>>, 0, {}, "signup")
    \/ rosters = <<>> /\ \E u \in Members, n \in {1, 2} : event_sherpa_cmd(u, "raid", n, 0)
    \/ \E mid \in Mids, u \in Members, e \in Emoji :
          Kept(mid, u, e) /\ on_raw_reaction_add(mid, u, e)
    \/ \E mid \in Mids, u \in Members, e \in Emoji : on_raw_reaction_remove(mid, u, e)
    \/ \E p \in pending : Resume(p)
    \/ \E inv \in Members, u \in Members, ch \in Channels : promote_cmd(inv, u, ch)
    \/ \E v \in views : SherpaConfirmView_yes(v)
    \/ \E v \in views : SherpaConfirmView_no(v)

SpecRoles == Init /\ [][NextRoles]_vars


(***************************************************************************)
(* The surfaces: cards are deleted and re-posted while members react,      *)
(* use /leave with any identifier the roster ever had, and press the       *)
(* buttons of a selection DM sent when the roster was created.             *)
(***************************************************************************)
NextSurface ==
    \/ rosters = <<>> /\ \E a \in PlayersArgs :
          schedule_cmd(FOUNDER_USER_ID, "dungeon", a.reserved, {}, a.participants,
                       0, {2}, "failed")
    \/ \E mid \in Mids : DeleteMessage(mid)
    \/ \E mid \in Mids, posted \in BOOLEAN : on_message_delete(mid, posted)
    \/ \E e \in delq : on_message_delete_register(e)
    \/ \E mid \in Mids, u \in Members, e \in Emoji :
          Kept(mid, u, e) /\ on_raw_reaction_add(mid, u, e)
    \/ \E p \in pending : Resume(p)
    \/ \E u \in Members, mid \in Mids : leave_cmd(u, mid)
    \/ \E v \in views : ConfirmView_yes(v)
    \/ \E v \in views : ConfirmView_no(v)

SpecSurface == Init /\ [][NextSurface]_vars


(***************************************************************************)
(* The reminders: the scheduler runs over a /schedule roster with a        *)
(* pre-slotted Sherpa while members react on the event card and on the     *)
(* Sherpa signup card, press the buttons of the Sherpa claim DM, and the   *)
(* event card is deleted and re-posted.                                    *)
(***************************************************************************)
NextReminders ==
    \/ rosters = <<>> /\ \E st \in {StartSoon, StartLater} :
          schedule_cmd(FOUNDER_USER_ID, "dungeon", 2, {3}, <<>>, st, {}, "signup")
    \/ \E mid \in Mids, e \in {"check", "cross"} : on_raw_reaction_add(mid, 2, e)
    \/ promote_cmd(FOUNDER_USER_ID, 2, "event")
    \/ \E v \in views : SherpaConfirmView_yes(v)
    \/ \E v \in views : SherpaConfirmView_no(v)
    \/ DeleteMessage(1)
    \/ on_message_delete(1, TRUE)
    \/ \E e \in delq : on_message_delete_register(e)
    \/ _scheduler_loop
    \/ Tick

SpecReminders == Init /\ [][NextReminders]_vars


(***************************************************************************)
(* Properties.                                                             *)
(***************************************************************************)
ListsHolding(d, u) ==
    (IF u \in Range(d.players) THEN 1 ELSE 0)
    + (IF u \in Range(d.backups) THEN 1 ELSE 0)
    + (IF u \in d.sherpas THEN 1 ELSE 0)
    + (IF u \in Range(d.sherpa_backup) THEN 1 ELSE 0)

LeaveOps == {"add_cross", "remove_check", "leave", "remove", "confirm_no"}

(* C1: in every reachable state each member is in at most one of players,  *)
(* backups, sherpas and sherpa_backup of a roster.                         *)
C1_CrossListExclusivity ==
    \A i \in DOMAIN rosters, u \in Members : ListsHolding(rosters[i], u) <= 1

(* C2: for every /schedule and /event roster, len(players) never exceeds   *)
(* playerSlots = max(0, capacity - reserved_sherpas).                      *)
C2_ParticipantCapacity ==
    \A i \in DOMAIN rosters :
        rosters[i].type # "sherpa_only"
            => Len(rosters[i].players) <= player_slots(rosters[i])

C2_Witness ==
    \E i \in DOMAIN rosters :
        /\ rosters[i].type # "sherpa_only"
        /\ Len(rosters[i].players) = player_slots(rosters[i])
        /\ last.op \in {"add_check", "add", "confirm_yes"}
        /\ last.uid \in Range(rosters[i].backups)

(* C3: for every roster, len(sherpas) never exceeds reserved_sherpas (the  *)
(* capacity, for a Sherpa-only roster).                                    *)
C3_RoleCapacity ==
    \A i \in DOMAIN rosters :
        Cardinality(rosters[i].sherpas)
            <= IF rosters[i].type = "sherpa_only" THEN rosters[i].capacity
               ELSE rosters[i].reserved_sherpas

(* C4: a step that removes a member from players promotes from the head of *)
(* backups in that same step: afterwards players is full or backups is     *)
(* empty, and a member who headed backups is a player.                     *)
C4_LeaveTriggersAutofill ==
    [][\A i \in DOMAIN rosters :
          LET d == rosters[i]
              e == rosters'[i]
          IN  (\E m \in Range(d.players) : m \notin Range(e.players))
                  => /\ Len(e.players) = player_slots(e) \/ e.backups = <<>>
                     /\ d.backups # <<>> => Head(d.backups) \in Range(e.players)]_vars

C4_Witness ==
    \E i \in DOMAIN rosters :
        /\ last.op \in LeaveOps
        /\ last.moved # <<>>
        /\ last.uid \notin Range(rosters[i].players)
        /\ last.moved[1] \in Range(rosters[i].players)

(* C5: a step that promotes members from backups promotes a prefix         *)
(* b1..bk of backups, appends it to the tail of players in that order and  *)
(* leaves the other backups in their order.                                *)
C5_FifoPromotion ==
    [][\A i \in DOMAIN rosters :
          LET d == rosters[i]
              e == rosters'[i]
              n == Len(d.backups)
              promoted == {b \in Range(d.backups) :
                              b \notin Range(d.players) /\ b \in Range(e.players)}
          IN  promoted # {}
                  => \E k \in 1..n :
                        /\ promoted = Range(SubSeq(d.backups, 1, k))
                        /\ e.backups = SubSeq(d.backups, k + 1, n)
                        /\ Len(e.players) >= k
                        /\ SubSeq(e.players, Len(e.players) - k + 1, Len(e.players))
                               = SubSeq(d.backups, 1, k)]_vars

C5_Witness ==
    \E i \in DOMAIN rosters :
        LET p == rosters[i].players IN
        /\ last.moved # <<>>
        /\ rosters[i].backups # <<>>
        /\ Len(p) >= Len(last.moved)
        /\ SubSeq(p, Len(p) - Len(last.moved) + 1, Len(p)) = last.moved

(* The roster a check reaction by uid on the event card mid would leave,   *)
(* in the current state.                                                   *)
AfterCheck(mid, uid) == AddResult(mid, uid, "check").data

FormingCards ==
    {mid \in Mids : /\ Live(mid) /\ SCHEDULES[mid] # 0 /\ AlertOwner(mid) = 0
                    /\ Data(mid).type # "sherpa_only"
                    /\ ~Data(mid).signups_open}

C7_RosterIdentity ==
    \A m \in DOMAIN msgs :
        (msgs[m].origin # 0 /\ ~\E e \in delq : e.new = m)
            => /\ SCHEDULES[m] # 0
               /\ SCHEDULES[msgs[m].origin] = SCHEDULES[m]

C7_Witness ==
    \E m \in DOMAIN msgs :
        /\ msgs[m].live /\ msgs[m].origin # 0
        /\ msgs[msgs[m].origin].origin = last.mid
        /\ last.op \in {"leave", "confirm_yes", "confirm_no"}
        /\ SCHEDULES[last.mid] # 0 /\ SCHEDULES[last.mid] = SCHEDULES[m]

(* C8: once a card has been re-posted, a press of a selection DM button    *)
(* (bound to the identifier the card had when the DM was sent) leaves the  *)
(* live card of the roster showing the roster as it is after the press.    *)
C8_RenderTarget ==
    [][\A v \in views :
          (ConfirmView_yes(v) \/ ConfirmView_no(v))
              => \A m \in DOMAIN msgs :
                    (/\ msgs[m].live /\ msgs[m].kind = "event"
                     /\ SCHEDULES[m] # 0 /\ SCHEDULES[m] = SCHEDULES[v.mid])
                        => msgs'[m].embed = Render(rosters'[SCHEDULES[m]])]_vars

(* C9: for every roster and each of the three labels, the reminder batch   *)
(* is started at most once.                                                *)
C9_RemindersOneShot ==
    \A i \in DOMAIN sent, l \in 1..3 : sent[i][LabelKey[l]] <= 1

(* C10: no handler changes a roster after a suspension point: a handler    *)
(* that runs on after its promotion DM leaves every roster as it finds it. *)
C10_AtomicTransitions ==
    [][\A p \in pending : Resume(p) => rosters' = rosters]_vars

(* The event cards: the live cards of /schedule and /event rosters.         *)
EventCards ==
    {mid \in Mids : /\ Live(mid) /\ SCHEDULES[mid] # 0 /\ AlertOwner(mid) = 0
                    /\ Data(mid).type # "sherpa_only"}

(* The roster the cross reaction and /leave leave when the handler is not  *)
(* interleaved with another.                                               *)
LeaveDone(d, uid) == LeaveSecond(LeaveFirst(d, uid).data, uid)

(* C11: the roster left by any leave trigger of member m on an event card  *)
(* (m's check, note or repeat reaction removed, m's cross reaction, /leave *)
(* with the event id) holds m in none of its four lists.                   *)
C11_LeaveIsComplete ==
    \A mid \in EventCards, uid \in Members :
        /\ \A e \in {"check", "note", "repeat"} :
              ListsHolding(RemoveResult(mid, uid, e).data, uid) = 0
        /\ ListsHolding(LeaveSecond(AddResult(mid, uid, "cross").data, uid), uid) = 0
        /\ ListsHolding(LeaveDone(Data(mid), uid), uid) = 0

(* C12: the roster left by the "Can't make it" button of a selection DM is *)
(* the roster left by Leave for the addressed member.                      *)
C12_DeclineIsLeave ==
    \A v \in views :
        (v.type = "confirm" /\ SCHEDULES[v.mid] # 0)
            => ConfirmNo(Data(v.mid), v.uid).data = LeaveDone(Data(v.mid), v.uid)

RoleSlots(d) == IF d.type = "sherpa_only" THEN d.capacity ELSE d.reserved_sherpas

(* C13: a step that removes a member from sherpas promotes from the head   *)
(* of sherpa_backup in that same step: afterwards sherpas fills the role   *)
(* slots or sherpa_backup is empty.                                        *)
C13_RoleAutofill ==
    [][\A i \in DOMAIN rosters :
          LET d == rosters[i]
              e == rosters'[i]
          IN  (\E m \in d.sherpas : m \notin e.sherpas)
                  => \/ Cardinality(e.sherpas) >= RoleSlots(e)
                     \/ e.sherpa_backup = <<>>]_vars

(* The Sherpa signup cards: the live cards that a roster names as its      *)
(* alert.                                                                  *)
AlertCards == {mid \in Mids : Live(mid) /\ AlertOwner(mid) # 0}

RoleOnlyCards ==
    {mid \in Mids : /\ Live(mid) /\ SCHEDULES[mid] # 0 /\ AlertOwner(mid) = 0
                    /\ Data(mid).type = "sherpa_only"}

(* C17: a check reaction on the Sherpa signup card by a Sherpa Assistant   *)
(* in none of the four lists adds them to sherpas while sherpas has fewer  *)
(* than reserved_sherpas members and to sherpa_backup otherwise; by one    *)
(* who is in any list, sherpas included, it changes no list.               *)
C17_ClaimRole ==
    \A mid \in AlertCards, uid \in AssistantRole :
        LET d == Data(AlertOwner(mid))
            e == AddResult(mid, uid, "check").data
        IN  IF _user_in_any_event_list(d, uid) = "None"
            THEN IF Cardinality(d.sherpas) < d.reserved_sherpas
                 THEN e = [d EXCEPT !.sherpas = @ \cup {uid}]
                 ELSE e = [d EXCEPT !.sherpa_backup = SetAdd(@, uid)]
            ELSE e = d

(* C18: a check or repeat reaction on the Sherpa signup card by a member   *)
(* who is no Sherpa Assistant, and any reaction on a Sherpa-only card by a *)
(* member who is no Sherpa, leaves the roster as it is.                    *)
C18_NonCapableNoOp ==
    /\ \A mid \in AlertCards, uid \in Members \ AssistantRole :
          \A e \in {"check", "repeat"} :
              AddResult(mid, uid, e).data = Data(AlertOwner(mid))
    /\ \A mid \in RoleOnlyCards, uid \in Members \ SherpaRole :
          \A e \in Emoji : AddResult(mid, uid, e).data = Data(mid)

C18_Witness ==
    \E mid \in RoleOnlyCards :
        LET d == Data(mid) IN
        /\ Cardinality(d.sherpas) < d.capacity
        /\ \E uid \in Members \ SherpaRole :
              /\ _user_in_any_event_list(d, uid) = "None"
              /\ AddResult(mid, uid, "check").data = d
        /\ \E uid \in SherpaRole :
              /\ _user_in_any_event_list(d, uid) = "None"
              /\ AddResult(mid, uid, "check").data # d

(* C14: a scheduler pass that starts at or after T-2h of a roster whose    *)
(* players fill the player slots sets signups_open and leaves players and  *)
(* backups as they are.                                                    *)
C14_OpenWhenFull ==
    \A k \in Keys :
        LET d == Data(k) IN
        (/\ sched.pc = "sleep" /\ k = Head(SortedKeys)
         /\ d.type # "sherpa_only" /\ d.start_ts # 0 /\ ~d.signups_open
         /\ now >= d.start_ts - TwoHours
         /\ Len(d.players) = player_slots(d))
            => LET e == Run(Wake).R[SCHEDULES[k]]
               IN  /\ e.signups_open
                   /\ e.players = d.players /\ e.backups = d.backups

(* No handler is in progress: none is parked in a DM, the scheduler        *)
(* sleeps, and no deleted card awaits its handler.                         *)
Quiet == pending = {} /\ sched.pc = "sleep" /\ delq = {}

(* C16: whenever no handler is in progress, every live card shows the      *)
(* render of the roster it stands for.                                     *)
C16_RenderFollowsMutation ==
    Quiet => \A m \in Mids :
                (Live(m) /\ SCHEDULES[m] # 0) => msgs[m].embed = Render(Data(m))

OpenCards == {mid \in EventCards : Data(mid).signups_open}

(* A /schedule card takes no reaction from a member with the Sherpa role.  *)
SherpaBlocked(d, uid) == d.type = "schedule" /\ uid \in SherpaRole

C20_AddToBackupAnyMember ==
    \A mid \in EventCards, uid \in Members, em \in {"note", "repeat"} :
        LET d == Data(mid)
            e == AddResult(mid, uid, em).data
        IN  IF _user_in_any_event_list(d, uid) = "None"
            THEN e = [d EXCEPT !.backups = Append(@, uid)]
            ELSE e = d

(* C20, amended: the same, except that on a /schedule card a note or       *)
(* repeat reaction by a member with the Sherpa role changes nothing.       *)
C20_AddToBackup ==
    \A mid \in EventCards, uid \in Members, em \in {"note", "repeat"} :
        LET d == Data(mid)
            e == AddResult(mid, uid, em).data
        IN  IF _user_in_any_event_list(d, uid) = "None" /\ ~SherpaBlocked(d, uid)
            THEN e = [d EXCEPT !.backups = Append(@, uid)]
            ELSE e = d

C20_Witness ==
    \E i \in DOMAIN rosters :
        LET b == rosters[i].backups IN
        /\ rosters[i].type # "sherpa_only"
        /\ last.op \in {"add_note", "add_repeat"}
        /\ Len(b) >= 2 /\ b[Len(b)] = last.uid

(***************************************************************************)
(* The opening of signups: the scheduler runs over a /schedule roster with *)
(* a free player slot whose T-2h has come, while a member reacts on the    *)
(* event card and the card is deleted and re-posted.                       *)
(***************************************************************************)
NextOpening ==
    \/ rosters = <<>> /\ schedule_cmd(FOUNDER_USER_ID, "dungeon", 1, {}, <<>>, StartSoon, {}, "failed")
    \/ \E mid \in Mids, e \in {"check", "note"} : on_raw_reaction_add(mid, 2, e)
    \/ \E mid \in Mids : DeleteMessage(mid)
    \/ \E mid \in Mids : on_message_delete(mid, TRUE)
    \/ \E e \in delq : on_message_delete_register(e)
    \/ _scheduler_loop
    \/ Tick

SpecOpening == Init /\ [][NextOpening]_vars

(* C15: once signups are open and the scheduler is past the step that adds *)
(* the reactions, every live card of the roster carries the check          *)
(* reaction, be it the original card or a re-posted one.                   *)
C15_JoinAffordance ==
    \A m \in Mids :
        (/\ Live(m) /\ msgs[m].kind = "event" /\ SCHEDULES[m] # 0
         /\ Data(m).type # "sherpa_only" /\ Data(m).signups_open
         /\ sched.pc # "opened")
            => "check" \in msgs[m].reactions


(***************************************************************************)
(* C21: the Confirm button of a selection DM bypasses the soft             *)
(* reservation.  For every selection DM still outstanding on a live        *)
(* roster: if the addressed member is in none of the four lists, Confirm   *)
(* appends the member to players when len(players) < playerSlots and to    *)
(* backups otherwise, whatever signups_open is; if the member is already   *)
(* in any list, Confirm leaves the roster unchanged.                       *)
(***************************************************************************)
Selections == {v \in views : v.type = "confirm" /\ SCHEDULES[v.mid] # 0}

C21_ConfirmBypassesSoft ==
    \A v \in Selections :
        LET d == Data(v.mid)
            e == ConfirmYes(d, v.uid)
        IN  IF _user_in_any_event_list(d, v.uid) # "None" THEN e = d
            ELSE IF Len(d.players) < player_slots(d)
                 THEN e = [d EXCEPT !.players = Append(@, v.uid)]
                 ELSE e = [d EXCEPT !.backups = Append(@, v.uid)]

\* A Confirm press put its member at the tail of players while sign-ups
\* were still closed.
C21_Witness ==
    /\ last.op = "confirm_yes"
    /\ SCHEDULES[last.mid] # 0
    /\ LET d == Data(last.mid) IN
       /\ ~d.signups_open
       /\ d.players # <<>>
       /\ d.players[Len(d.players)] = last.uid
       /\ d.type = "schedule"


(***************************************************************************)
(* C22: every promotion is notified.  Whenever the last operation moved    *)
(* members from backups to players of an event roster by Autofill, each    *)
(* moved member was addressed by _dm_promoted_users in that operation.     *)
(***************************************************************************)
C22_PromotionNotified ==
    (/\ last.moved # <<>>
     /\ SCHEDULES[last.mid] # 0
     /\ Data(last.mid).type # "sherpa_only")
        => Range(last.moved) \subseteq last.dm

\* The promotions that are notified: a removed check mark promoted a backup
\* and addressed the notice to them.
C22_Notified ==
    /\ last.op = "remove_check"
    /\ last.moved # <<>>
    /\ Range(last.moved) \subseteq last.dm

\* The promotions that are not: /remove and the "Can't make it" button.
C22_Silent ==
    /\ last.op \in {"remove", "confirm_no"}
    /\ last.moved # <<>>
    /\ last.dm = {}


(***************************************************************************)
(* The notifications: members close and open their DMs while a /schedule   *)
(* roster is created against a waiting queue, the scheduler sends the      *)
(* reminders, and the one player leaves so that the backup is promoted.    *)
(***************************************************************************)
NextNotify ==
    \/ rosters = <<>> /\ \E q \in SUBSET {2, 3} :
          schedule_cmd(FOUNDER_USER_ID, "dungeon", 2, {3}, <<2>>, StartSoon, q, "failed")
    \/ \E u \in Members : ToggleDMs(u)
    \/ on_raw_reaction_add(1, 1, "cross")
    \/ \E p \in pending : Resume(p)
    \/ _scheduler_loop
    \/ Tick

SpecNotify == Init /\ [][NextNotify]_vars

(***************************************************************************)
(* C23: notification failures are isolated.  For every finished batch      *)
(* (the selection DMs of /schedule, a reminder batch): a send was          *)
(* attempted to every recipient, whoever failed before; the                *)
(* reported count is the number of sends that went through; the roster     *)
(* created by /schedule stands and its selection buttons are exactly with  *)
(* the members reached; the reminder flag of the batch is set.  A          *)
(* scheduler step that returns from a reminder DM, failed or not, is       *)
(* followed by the next DM of the batch or by the end of the batch.  A     *)
(* promotion is addressed to every promoted member and the promoted        *)
(* members stay players.                                                   *)
(***************************************************************************)
C23_FailuresIsolated ==
    LET n == last.note IN
    /\ n.kind # "none" =>
          /\ n.tried = n.to
          /\ n.count = n.got
          /\ SCHEDULES[n.mid] # 0
          /\ n.kind = "selection" =>
                Cardinality({w \in views : w.mid = n.mid}) = n.got
          /\ n.kind # "selection" => Data(n.mid)[n.kind]
    /\ last.op \in {"sched_dm_p", "sched_dm_s"} =>
          sched.pc \in {"dm_p", "dm_s"} \/ n.kind # "none"
    /\ last.moved # <<>> =>
          /\ last.dm = Range(last.moved)
          /\ Range(last.moved) \subseteq Range(Data(last.mid).players)

\* A reminder batch ended with its flag set after the send to its first
\* recipient failed and the send to its second recipient went through.
C23_Witness ==
    LET n == last.note IN
    /\ n.kind = "r_2h"
    /\ n.to = 2
    /\ n.tried = 2
    /\ Head(Data(n.mid).players) \in closed
    /\ Data(n.mid).sherpas \cap closed = {}
    /\ n.count = 1
    /\ Data(n.mid).r_2h


(***************************************************************************)
(* The waiting queues: members join and leave, anyone adds a member, the   *)
(* founder removes one, the autosave runs, and the process may stop        *)
(* within any save.                                                        *)
(***************************************************************************)
QueueMembers == {1, 2}

NextQueues ==
    \/ \E u \in Members, a \in Activities, st \in SavePoints : join_cmd(u, a, st)
    \/ \E u \in QueueMembers, a \in Activities, st \in SavePoints :
          leave_cmd_activity(u, a, st)
    \/ \E u \in QueueMembers, a \in Activities, st \in SavePoints :
          add_cmd_activity(3, u, a, st)
    \/ \E u \in QueueMembers, a \in Activities, st \in SavePoints :
          remove_cmd_activity(FOUNDER_USER_ID, u, a, st)
    \/ \E st \in SavePoints : _autosave_loop(st)

SpecQueues == Init /\ [][NextQueues]_vars

(***************************************************************************)
(* C24: after any sequence of /join, /leave, /add and /remove with an      *)
(* activity, every member is in at most two activity queues.               *)
(***************************************************************************)
QueuesOf(uid) == {a \in Activities : uid \in Range(QUEUES[a])}

C24_QueueLimit == \A u \in Members : Cardinality(QueuesOf(u)) <= 2


(***************************************************************************)
(* C25: the waiting queues are duplicate-free and ordered.  After every    *)
(* step no queue holds a member twice; a /join or /add that changes the    *)
(* queues appends the member at the tail of one queue; a /leave or         *)
(* /remove that changes them deletes that member's one entry and keeps     *)
(* the order of the others.                                                *)
(***************************************************************************)
NoDuplicates(q) == \A i, j \in 1..Len(q) : q[i] = q[j] => i = j

Appended(Q, R, u) ==
    \E a \in Activities :
        u \notin Range(Q[a]) /\ R = [Q EXCEPT ![a] = Q[a] \o <<u>>]

Deleted(Q, R, u) ==
    \E a \in Activities : \E i \in 1..Len(Q[a]) :
        /\ Q[a][i] = u
        /\ R = [Q EXCEPT ![a] = SubSeq(Q[a], 1, i - 1) \o SubSeq(Q[a], i + 1, Len(Q[a]))]

QueueStepOrdered ==
    /\ \A a \in Activities : NoDuplicates(QUEUES'[a])
    /\ (QUEUES' # QUEUES /\ last'.op \in {"join", "add_queue"})
          => Appended(QUEUES, QUEUES', last'.uid)
    /\ (QUEUES' # QUEUES /\ last'.op \in {"leave_queue", "remove_queue"})
          => Deleted(QUEUES, QUEUES', last'.uid)

SaveIsAtomic ==
    /\ disk'.file.kind # "torn"
    /\ disk'.file = disk.file \/ disk'.file = Json(QUEUES')
    /\ last'.op = "stopped" => disk'.file = disk.file

C26_AtomicSnapshot == [][SaveIsAtomic]_vars

\* The process stopped with the temporary file partly written: queues.json
\* still holds the previous complete snapshot, from which QUEUES was loaded.
C26_Witness ==
    /\ last.op = "stopped"
    /\ disk.tmp.kind = "torn"
    /\ disk.file.kind = "json"
    /\ disk.file.state # NoQueues
    /\ QUEUES = disk.file.state


(***************************************************************************)
(* C27: permission failures leave the roster untouched.  On every roster,  *)
(* an /add or a /remove naming the event, issued by a member who is        *)
(* neither the roster's promoter (host) nor the founder, returns the       *)
(* roster with every list as it was.                                       *)
(***************************************************************************)
Strangers(d) == {u \in Members : u # FOUNDER_USER_ID /\ u # d.promoter_id}

C27_PermissionFailure ==
    \A mid \in Keys : \A inv \in Strangers(Data(mid)) : \A uid \in Members :
        /\ AddCommand(inv, Data(mid), uid).data = Data(mid)
        /\ RemoveCommand(inv, Data(mid), uid).data = Data(mid)

\* A member's own /event roster on which the host's /add of member 3 and
\* the founder's /remove of the host would act, and member 3 may do neither.
C27_Witness ==
    \E mid \in Keys :
        LET d == Data(mid) IN
        /\ d.promoter_id = 2
        /\ 3 \in Strangers(d)
        /\ AddCommand(2, d, 3).data # d
        /\ RemoveCommand(FOUNDER_USER_ID, d, 2).data # d
        /\ AddCommand(3, d, 3).data = d
        /\ RemoveCommand(3, d, 2).data = d


(***************************************************************************)
(* Stale references: a /schedule roster is created against a waiting       *)
(* queue, members react on its card and press the buttons of the           *)
(* selection DM; the process stops within a queue save and is started      *)
(* again, after which the old cards are still on the platform and a new    *)
(* roster may be created.                                                  *)
(***************************************************************************)
NextStale ==
    \/ rosters = <<>> /\ schedule_cmd(FOUNDER_USER_ID, "dungeon", 1, {}, <<>>, 0,
                                      Range(QUEUES["dungeon"]), "failed")
    \/ \E st \in SavePoints : join_cmd(2, "dungeon", st)
    \/ \E st \in SavePoints : leave_cmd_activity(2, "dungeon", st)
    \/ \E mid \in Mids, e \in {"check", "note", "cross"} : on_raw_reaction_add(mid, 2, e)
    \/ \E mid \in Mids : on_raw_reaction_remove(mid, 2, "check")
    \/ \E v \in views : ConfirmView_yes(v)
    \/ \E v \in views : ConfirmView_no(v)

SpecStale == Init /\ [][NextStale]_vars

(***************************************************************************)
(* C28: unknown or stale references are no-ops.  A step of a reaction      *)
(* handler (reaction added or removed) or of a DM button that changes a    *)
(* roster or a waiting queue refers to a message identifier under which a  *)
(* roster is registered (for the Sherpa signup card: the event that names  *)
(* it); so on an identifier with no roster these handlers change neither.  *)
(***************************************************************************)
ReferenceOps ==
    {pre \o e : pre \in {"add_", "alert_", "remove_"}, e \in Emoji}
        \cup {"confirm_yes", "confirm_no", "sherpa_yes", "sherpa_no",
              "resume_cross", "resume_uncheck"}

StaleIsNoOp ==
    (last'.op \in ReferenceOps /\ (rosters' # rosters \/ QUEUES' # QUEUES))
        => SCHEDULES[last'.mid] # 0

C28_StaleNoOp == [][StaleIsNoOp]_vars

\* The card of a roster of the stopped process is still on the platform,
\* under an identifier with no roster, next to the card of a new roster
\* that member 2 has joined by a reaction.
C28_Witness ==
    /\ \E m \in Mids : Live(m) /\ SCHEDULES[m] = 0 /\ AlertOwner(m) = 0
    /\ last.op \in {"add_check", "add_note"}
    /\ SCHEDULES[last.mid] # 0
    /\ _user_in_any_event_list(Data(last.mid), 2) # "None"


(***************************************************************************)
(* C29: terminal state.  Once a roster's start time has passed and its     *)
(* three reminder flags are set, no step of a reaction handler, of a DM    *)
(* button or of the scheduler changes the roster's four lists or its       *)
(* signups_open.                                                           *)
(***************************************************************************)
Terminal(d) == d.start_ts # 0 /\ now >= d.start_ts /\ d.r_2h /\ d.r_30m /\ d.r_0m

SchedulerOps == {"sched_sleep", "sched_opened", "sched_dm_p", "sched_dm_s"}

Lists(d) == <<d.players, d.backups, d.sherpas, d.sherpa_backup, d.signups_open>>

TerminalStep ==
    \A rid \in DOMAIN rosters :
        (/\ Terminal(rosters[rid])
         /\ rid \in DOMAIN rosters'
         /\ last'.op \in ReferenceOps \cup SchedulerOps)
            => Lists(rosters'[rid]) = Lists(rosters[rid])

C29_Terminal == [][TerminalStep]_vars


(***************************************************************************)
(* The timers: /schedule rosters with and without a start time exist side  *)
(* by side, member 2 reacts on their cards, the clock advances and the     *)
(* scheduler runs.                                                         *)
(***************************************************************************)
NextTimers ==
    \/ \E st \in {0, StartSoon} :
          schedule_cmd(FOUNDER_USER_ID, "dungeon", 1, {}, <<>>, st, {}, "failed")
    \/ \E mid \in Mids, e \in {"check", "cross"} : on_raw_reaction_add(mid, 2, e)
    \/ _scheduler_loop
    \/ Tick

SpecTimers == Init /\ [][NextTimers]_vars

(***************************************************************************)
(* C30: an absent start time disables the timers.  No step changes         *)
(* signups_open or a reminder flag of a roster without a start time, or    *)
(* starts a reminder batch for it; and a scheduler pass that begins while  *)
(* every roster before roster k in the snapshot has no start time and k    *)
(* has a timer due reaches k: it is next suspended in k's opening or in a  *)
(* reminder DM of k, or has run through k's reminders.                     *)
(***************************************************************************)
Timers(d) == <<d.signups_open, d.r_2h, d.r_30m, d.r_0m>>

Due(d) == d.start_ts # 0 /\ (OpenDue(d, now) \/ \E l \in 1..3 : ReminderDue(d, l, now))

NoTimerStep ==
    \A rid \in DOMAIN rosters :
        rosters[rid].start_ts = 0
            => Timers(rosters'[rid]) = Timers(rosters[rid]) /\ sent'[rid] = sent[rid]

PassReaches ==
    \A k \in Keys :
        (/\ sched.pc = "sleep"
         /\ Due(Data(k))
         /\ \A j \in Keys : j < k => Data(j).start_ts = 0)
            => LET c == Run(Wake) IN
               \/ c.s.pc # "sleep" /\ Head(c.s.items) = k
               \/ \A l \in 1..3 : ~ReminderDue(c.R[SCHEDULES[k]], l, now)

C30_AbsentStart == [][NoTimerStep]_vars /\ []PassReaches

\* The pass skipped the first roster, which has no start time and no timer
\* state, and sent the 2h reminder of the second.
C30_Witness ==
    /\ Len(rosters) = 2
    /\ rosters[1].start_ts = 0
    /\ Timers(rosters[1]) = <<FALSE, FALSE, FALSE, FALSE>>
    /\ sent[1] = NoSent
    /\ rosters[2].start_ts # 0
    /\ rosters[2].r_2h
    /\ sent[2].r_2h = 1

(***************************************************************************)
(* C31: signups_open is false when the roster is created and in every      *)
(* state where now < start_ts - 2h; it changes only in a step of the       *)
(* scheduler that finds the roster at or past start_ts - 2h with a free    *)
(* player slot, and then from false to true: once true it stays true.      *)
(***************************************************************************)
ClosedBeforeTrigger ==
    \A rid \in DOMAIN rosters :
        now < rosters[rid].start_ts - TwoHours => ~rosters[rid].signups_open

OpenSignupsStep ==
    \A rid \in DOMAIN rosters' :
        IF rid \notin DOMAIN rosters THEN ~rosters'[rid].signups_open
        ELSE rosters'[rid].signups_open # rosters[rid].signups_open
                => /\ rosters'[rid].signups_open
                   /\ last'.op \in SchedulerOps
                   /\ sched'.pc = "opened"
                   /\ SCHEDULES[Head(sched'.items)] = rid
                   /\ rosters[rid].type # "sherpa_only"
                   /\ sched'.t >= rosters[rid].start_ts - TwoHours
                   /\ Len(rosters[rid].players) < player_slots(rosters[rid])

C31_SignupsOpen == []ClosedBeforeTrigger /\ [][OpenSignupsStep]_vars

\* A roster that starts in four hours has been opened, two hours on.
C31_Witness ==
    \E rid \in DOMAIN rosters :
        /\ rosters[rid].start_ts = StartLater
        /\ rosters[rid].signups_open
        /\ now = StartLater - TwoHours

(***************************************************************************)
(* The scheduler passes: two /schedule rosters with a start time, the      *)
(* first full and with a Sherpa signup card, the second with a free        *)
(* player slot; member 2 reacts on the cards while the scheduler runs.     *)
(***************************************************************************)
NextPasses ==
    \/ rosters = <<>> /\
          schedule_cmd(FOUNDER_USER_ID, "dungeon", 2, {3}, <<>>, StartSoon, {}, "signup")
    \/ Len(rosters) = 1 /\
          schedule_cmd(FOUNDER_USER_ID, "dungeon", 1, {}, <<>>, StartSoon, {}, "failed")
    \/ \E mid \in Mids, e \in {"check", "cross"} : on_raw_reaction_add(mid, 2, e)
    \/ _scheduler_loop
    \/ Tick

SpecPasses == Init /\ [][NextPasses]_vars

(***************************************************************************)
(* C32: the time triggers fire.  When a scheduler pass ends, every roster  *)
(* with a start time that the pass had still to examine has the flag of    *)
(* each reminder whose trigger time had passed at the pass's clock         *)
(* reading, and has signups_open if it had a free player slot at or after  *)
(* start_ts - 2h, whatever happened to the rosters examined before it.     *)
(***************************************************************************)
Unexamined == IF sched.pc = "sleep" THEN Range(SortedKeys) ELSE Range(Tail(sched.items))

PassClock == IF sched.pc = "sleep" THEN now ELSE sched.t

PassEnds == last'.op \in SchedulerOps /\ sched'.pc = "sleep" /\ now' = now

TriggersFired ==
    PassEnds =>
        \A k \in Unexamined :
            LET d == rosters[SCHEDULES[k]]
                e == rosters'[SCHEDULES[k]]
            IN  d.start_ts # 0 =>
                    /\ \A l \in 1..3 :
                           PassClock >= d.start_ts - LabelDelta[l] => e[LabelKey[l]]
                    /\ (/\ d.type # "sherpa_only"
                        /\ PassClock >= d.start_ts - TwoHours
                        /\ Len(d.players) < player_slots(d)) => e.signups_open

C32_TriggersFire == [][TriggersFired]_vars

(***************************************************************************)
(* C33: the survey is one-shot and tied to the start reminder.  For every  *)
(* roster the survey task is created at most once, not before the start    *)
(* reminder batch has fired, and once a scheduler pass in which the start  *)
(* reminder batch fired is over, the survey task has been created.         *)
(***************************************************************************)
SurveyAtMostOnce == \A i \in DOMAIN sent : sent[i].survey <= 1

SurveyAfterStart ==
    \A i \in DOMAIN sent :
        sent[i].survey >= 1
            => sent[i].r_0m >= 1 /\ rosters[i].start_ts # 0 /\ now >= rosters[i].start_ts

SurveyWithStart ==
    \A i \in DOMAIN sent : (sched.pc = "sleep" /\ sent[i].r_0m >= 1) => sent[i].survey >= 1

C33_SurveyOneShot == SurveyAtMostOnce /\ SurveyAfterStart /\ SurveyWithStart

(***************************************************************************)
(* _autofill_from_backups as a function of the roster: the roster is any   *)
(* /schedule dictionary with duplicate-free players and backups (a member  *)
(* may be in both) and any number of reserved Sherpa slots, and the        *)
(* function is called on it.                                               *)
(***************************************************************************)
ListArgs ==
    {s \in UNION {[1..n -> Members] : n \in 0..Cardinality(Members)} :
        \A i, j \in DOMAIN s : i # j => s[i] # s[j]}

RosterArgs ==
    {[ScheduleData(FOUNDER_USER_ID, "dungeon", r, {}, <<>>, 0)
         EXCEPT !.players = p, !.backups = b] :
        r \in 0.._cap_for_activity("dungeon"), p \in ListArgs, b \in ListArgs}

InitAutofill ==
    /\ SCHEDULES = [k \in Mids |-> 0]
    /\ rosters \in {<<d>> : d \in RosterArgs}
    /\ msgs = <<>>
    /\ views = {}
    /\ delq = {}
    /\ pending = {}
    /\ sched = Idle
    /\ now = 0
    /\ sent = <<NoSent>>
    /\ QUEUES = NoQueues
    /\ disk = NoDisk
    /\ closed = {}
    /\ removals = {}
    /\ last = NoLast

autofill_call(rid) ==
    /\ UNCHANGED <<SCHEDULES, msgs, views, delq, pending, sched, now, sent, store>>
    /\ LET af == _autofill_from_backups(rosters[rid])
       IN  /\ rosters' = [rosters EXCEPT ![rid] = af.data]
           /\ last' = Mark(Did("autofill", 0, 0, af.moved))

NextAutofill == \E rid \in DOMAIN rosters : autofill_call(rid)

SpecAutofill == InitAutofill /\ [][NextAutofill]_vars

(***************************************************************************)
(* C34: Autofill is idempotent.  For every roster, a second call of        *)
(* _autofill_from_backups right after a first one returns the players and  *)
(* backups of the first and promotes nobody.                               *)
(***************************************************************************)
C34_AutofillIdempotent ==
    \A rid \in DOMAIN rosters :
        LET once == _autofill_from_backups(rosters[rid])
            twice == _autofill_from_backups(once.data)
        IN  /\ twice.data.players = once.data.players
            /\ twice.data.backups = once.data.backups
            /\ twice.moved = <<>>

\* A call promoted two members and left one behind; the next promotes nobody.
C34_Witness ==
    /\ last.op = "autofill"
    /\ Len(last.moved) = 2
    /\ rosters[1].backups # <<>>
    /\ _autofill_from_backups(rosters[1]).moved = <<>>

(***************************************************************************)
(* The rendering of a card: the roster is any /schedule, /event or         *)
(* Sherpa-only dictionary whose card is out of date, and the card is       *)
(* re-rendered.                                                            *)
(***************************************************************************)
RenderArgs ==
    {[ScheduleData(FOUNDER_USER_ID, "dungeon", 1, {}, <<>>, 0)
         EXCEPT !.players = p, !.backups = b, !.sherpas = sh, !.sherpa_backup = sb] :
        p \in ListArgs, b \in ListArgs, sh \in SUBSET {2, 3}, sb \in {<<>>, <<2>>, <<2, 3>>}}
    \cup {[EventData(2, "dungeon", 0) EXCEPT !.players = p, !.backups = b] :
             p \in ListArgs, b \in ListArgs}
    \cup {[SherpaOnlyData(3, "raid", 2, 0) EXCEPT !.sherpas = sh, !.sherpa_backup = sb] :
             sh \in SUBSET Members, sb \in ListArgs}

Stale(d) ==
    [card |-> Render(d).card, capacity |-> d.capacity, sherpas |-> {},
     sherpa_backup |-> {}, players |-> <<>>, backups |-> <<>>]

InitRender ==
    /\ SCHEDULES = [k \in Mids |-> IF k = 1 THEN 1 ELSE 0]
    /\ \E d \in RenderArgs :
          /\ rosters = <<d>>
          /\ msgs = <<NewMsg("event", Stale(d), {"check", "note", "cross"}, 0, 0)>>
    /\ views = {}
    /\ delq = {}
    /\ pending = {}
    /\ sched = Idle
    /\ now = 0
    /\ sent = <<NoSent>>
    /\ QUEUES = NoQueues
    /\ disk = NoDisk
    /\ closed = {}
    /\ removals = {}
    /\ last = NoLast

render_call(mid) ==
    /\ SCHEDULES_get(mid) # 0
    /\ UNCHANGED <<SCHEDULES, views, delq, pending, sched, now, sent, store>>
    /\ rosters' = [rosters EXCEPT ![SCHEDULES_get(mid)] = RenderCall(@).data]
    /\ msgs' = _update_schedule_message(msgs, SCHEDULES, rosters, mid)
    /\ last' = Mark(Did("render", mid, 0, <<>>))

NextRender == \E mid \in Mids : render_call(mid)

SpecRender == InitRender /\ [][NextRender]_vars

(***************************************************************************)
(* C35: rendering is idempotent.  For every roster, of the standard and    *)
(* of the Sherpa-only kind, a second rendering right after a first one     *)
(* returns the same card (kind, capacity, players in order, backups in     *)
(* order, Sherpas, Sherpa backups); the card left on the message by a      *)
(* second update is the card left by the first; and no rendering changes   *)
(* players, backups, sherpas or sherpa_backup.                             *)
(***************************************************************************)
FourLists(d) == <<d.players, d.backups, d.sherpas, d.sherpa_backup>>

RenderTwice ==
    \A mid \in Keys :
        LET d == Data(mid)
            r1 == RenderCall(d)
            r2 == RenderCall(r1.data)
            m1 == _update_schedule_message(msgs, SCHEDULES, rosters, mid)
            m2 == _update_schedule_message(m1, SCHEDULES, rosters, mid)
        IN  /\ r2.embed = r1.embed
            /\ FourLists(r1.data) = FourLists(d)
            /\ FourLists(r2.data) = FourLists(d)
            /\ m2 = m1

RenderStep ==
    last'.op = "render" /\ last' # last
        => \A rid \in DOMAIN rosters : FourLists(rosters'[rid]) = FourLists(rosters[rid])

EditFailed ==
    /\ last.op \in {"leave", "confirm_yes", "confirm_no"}
    /\ SCHEDULES[last.mid] # 0
    /\ ~Live(last.mid)

C36_FailedEditRecovers ==
    (Quiet /\ EditFailed)
        => \E m \in Mids :
              /\ Live(m) /\ msgs[m].kind = "event"
              /\ SCHEDULES[m] = SCHEDULES[last.mid]
              /\ msgs[m].embed = Render(Data(m))

(***************************************************************************)
(* The Sherpa signup cards: /schedule posts the card in the Sherpa signup  *)
(* channel or, failing that, in the event channel; members react on the    *)
(* cards and press the buttons of the Sherpa claim DM.                     *)
(***************************************************************************)
NextCards ==
    \/ rosters = <<>> /\ \E r \in ReservedArgs, al \in {"signup", "fallback"} :
          schedule_cmd(FOUNDER_USER_ID, "dungeon", r, {}, <<>>, 0, {}, al)
    \/ \E mid \in Mids, u \in Members, e \in Emoji :
          Kept(mid, u, e) /\ on_raw_reaction_add(mid, u, e)
    \/ \E mid \in Mids, u \in Members, e \in Emoji : on_raw_reaction_remove(mid, u, e)
    \/ \E v \in views : SherpaConfirmView_yes(v)
    \/ \E v \in views : SherpaConfirmView_no(v)

SpecCards == Init /\ [][NextCards]_vars

(***************************************************************************)
(* C37: the Sherpa signup card always works.  For every live Sherpa signup *)
(* card posted by /schedule, wherever it was posted, and every Sherpa      *)
(* Assistant in none of the four lists of the event the card links to, a   *)
(* check reaction on the card is taken as a claim on that event: the       *)
(* member joins sherpas while sherpas has fewer than reserved_sherpas      *)
(* members and sherpa_backup otherwise.                                    *)
(***************************************************************************)
PostedAlertCards == {mid \in Mids : Live(mid) /\ msgs[mid].kind = "alert"}

C37_RoleCardWorks ==
    \A mid \in PostedAlertCards, uid \in AssistantRole :
        LET d == Data(msgs[mid].link)
        IN  _user_in_any_event_list(d, uid) = "None"
                => /\ AlertOwner(mid) = msgs[mid].link
                   /\ LET e == AddResult(mid, uid, "check").data
                      IN  IF Cardinality(d.sherpas) < d.reserved_sherpas
                          THEN e = [d EXCEPT !.sherpas = @ \cup {uid}]
                          ELSE e = [d EXCEPT !.sherpa_backup = SetAdd(@, uid)]

(***************************************************************************)
(* C38: the reminder flags are set in trigger order.  In every state of    *)
(* every roster r_30m is set only if r_2h is, and r_0m only if r_30m is,   *)
(* also when all three triggers are due at the first pass after the        *)
(* roster was created; and no step clears a flag that is set.              *)
(***************************************************************************)
FlagsOrdered ==
    \A rid \in DOMAIN rosters :
        /\ rosters[rid].r_30m => rosters[rid].r_2h
        /\ rosters[rid].r_0m => rosters[rid].r_30m

FlagsStay ==
    \A rid \in DOMAIN rosters, l \in 1..3 :
        rosters[rid][LabelKey[l]] => rosters'[rid][LabelKey[l]]

C38_FlagsInOrder == []FlagsOrdered /\ [][FlagsStay]_vars

\* A roster created when its start time had come: the first pass has set
\* r_2h and r_30m and is sending the start batch.
C38_Witness ==
    \E rid \in DOMAIN rosters :
        /\ rosters[rid].start_ts = StartSoon
        /\ now >= StartSoon
        /\ sent[rid] = [r_2h |-> 1, r_30m |-> 1, r_0m |-> 1, survey |-> 0]
        /\ rosters[rid].r_2h /\ rosters[rid].r_30m /\ ~rosters[rid].r_0m
        /\ sched.pc = "dm_p" /\ sched.label = 3

(***************************************************************************)
(* The Sherpas on the main card: /schedule pre-slots members 2 and 3 as    *)
(* participants, member 3 holding the Sherpa role; the two react on the    *)
(* event card, the reactions the bot removes come back as removal events,  *)
(* and the scheduler runs.                                                 *)
(***************************************************************************)
NextBlocked ==
    \/ rosters = <<>> /\ \E r \in ReservedArgs, st \in {0, StartSoon} :
          schedule_cmd(FOUNDER_USER_ID, "dungeon", r, {}, <<2, 3>>, st, {}, "failed")
    \/ \E mid \in Mids, u \in {2, 3}, e \in Emoji \ {"other"} : on_raw_reaction_add(mid, u, e)
    \/ \E ev \in removals : reaction_removed(ev)
    \/ \E p \in pending : Resume(p)
    \/ _scheduler_loop
    \/ Tick

SpecBlocked == Init /\ [][NextBlocked]_vars

(***************************************************************************)
(* C39: members with the Sherpa role are kept off the ordinary lists of a  *)
(* /schedule event.  A note, repeat, check or cross reaction on the main   *)
(* card of a /schedule event by a member with the Sherpa role changes none *)
(* of players, backups, sherpas, sherpa_backup: neither in the handler of  *)
(* the reaction nor in the handler of the removal event that the handler   *)
(* of the reaction sets off.                                               *)
(***************************************************************************)
ScheduleCards ==
    {mid \in Mids : /\ Live(mid) /\ SCHEDULES[mid] # 0 /\ AlertOwner(mid) = 0
                    /\ Data(mid).type = "schedule"}

SherpaReactionKept ==
    \A mid \in ScheduleCards, uid \in SherpaRole :
        \A e \in {"note", "repeat", "check", "cross"} :
            FourLists(AddResult(mid, uid, e).data) = FourLists(Data(mid))

SherpaRemovalKept ==
    \A ev \in removals :
        reaction_removed(ev)
            => \A rid \in DOMAIN rosters : FourLists(rosters'[rid]) = FourLists(rosters[rid])

C39_SherpasKeptOff == []SherpaReactionKept /\ [][SherpaRemovalKept]_vars

(***************************************************************************)
(* The creation of a roster: /schedule with any number of reserved Sherpa  *)
(* slots, any set of pre-slotted Sherpas and any list of pre-slotted       *)
(* participants, as _parse_user_ids returns it (duplicate-free, in the     *)
(* order typed).                                                           *)
(***************************************************************************)
ReservedAny == {-1, 0, 1, 2, 3, 4}

NextCreate ==
    rosters = <<>> /\ \E r \in ReservedAny, sh \in SUBSET Members, ps \in ListArgs :
        schedule_cmd(FOUNDER_USER_ID, "dungeon", r, sh, ps, 0, {}, "failed")

SpecCreate == Init /\ [][NextCreate]_vars

(***************************************************************************)
(* C40: a roster created by /schedule is well-formed whatever the pre-slot *)
(* arguments: reserved_sherpas lies in 0..capacity; players and backups    *)
(* are duplicate-free, disjoint from each other and from the pre-slotted   *)
(* Sherpas; players has at most playerSlots members and backups is         *)
(* non-empty only when players is full; the host, unless pre-slotted as a  *)
(* Sherpa, is first in players, or first in backups when there is no       *)
(* player slot; signups_open and the three reminder flags are false.       *)
(***************************************************************************)
DuplicateFree(s) == \A i, j \in DOMAIN s : i # j => s[i] # s[j]

Clamped(d) == d.reserved_sherpas \in 0..d.capacity

ListsSeparate(d) ==
    /\ DuplicateFree(d.players) /\ DuplicateFree(d.backups)
    /\ Range(d.players) \cap Range(d.backups) = {}
    /\ (Range(d.players) \cup Range(d.backups)) \cap d.sherpas = {}

WithinSlots(d) ==
    /\ Len(d.players) <= player_slots(d)
    /\ d.backups # <<>> => Len(d.players) = player_slots(d)

HostFirst(d) ==
    d.promoter_id \notin d.sherpas
        => IF player_slots(d) > 0
           THEN d.players # <<>> /\ Head(d.players) = d.promoter_id
           ELSE d.backups # <<>> /\ Head(d.backups) = d.promoter_id

Unstarted(d) == ~d.signups_open /\ ~d.r_2h /\ ~d.r_30m /\ ~d.r_0m

Created == {rid \in DOMAIN rosters : last.op = "schedule" /\ SCHEDULES[last.mid] = rid}

C40_Clamped == \A rid \in Created : Clamped(rosters[rid])

C40_ListsSeparate == \A rid \in Created : ListsSeparate(rosters[rid])

C40_WithinSlots == \A rid \in Created : WithinSlots(rosters[rid])

C40_Unstarted == \A rid \in Created : Unstarted(rosters[rid])

C40_WellFormed ==
    \A rid \in Created :
        /\ Clamped(rosters[rid])
        /\ ListsSeparate(rosters[rid])
        /\ WithinSlots(rosters[rid])
        /\ HostFirst(rosters[rid])
        /\ Unstarted(rosters[rid])

=============================================================================
